---- MODULE Spec2Model ----
(***************************************************************************)
(* Model of the configuration-resolution core of the project model:       *)
(* variant/task lookup with the sparse override merge, task/variant pair  *)
(* selection with wildcard expansion, alias resolution, display-task      *)
(* expansion and task-id table generation.                                *)
(*                                                                         *)
(* Specifications: Spec is one call of the core on a project, SpecMerge   *)
(* is Populate applied again and again to one unit, SpecAlias is one      *)
(* resolution of an alias, SpecVersions is one id table construction over *)
(* versions of several revisions and ids, SpecTaskGroup is one call of    *)
(* GetTaskGroup, SpecMetaJob is one run of the event meta-job and         *)
(* SpecMetaJobFair is that run under weak fairness.                       *)
(*                                                                         *)
(* Conventions.  A Go pointer that may be nil is a sequence of length at  *)
(* most one (<<>> is nil).  A *bool is one of "nil", "true", "false".     *)
(* A Go panic (nil dereference) is a result with fault = TRUE.  Names are *)
(* strings; task ids are sequences of one-character strings so that the   *)
(* formatting and the sanitising of an id are computed character by       *)
(* character.                                                             *)
(***************************************************************************)
EXTENDS Integers, Sequences, FiniteSets, TLC

VARIABLES
    proj,        \* the Project the core operates on
    op,          \* name of the last operation called ("none" initially)
    argVariants, \* requested variant names passed to the last call
    argTasks,    \* requested task names passed to the last call
    argPairs,    \* TaskVariantPairs passed to the last call
    argVersion,  \* version record passed to the last call
    fault,       \* TRUE when the last call ended in a panic
    alias,       \* the alias name passed to the last BuildProjectTVPairs
    expanded,    \* patchDoc.BuildVariants / patchDoc.Tasks as the wildcard
                 \* expansion of the last call left them
    selected,    \* patchDoc.BuildVariants / patchDoc.Tasks as the last call
                 \* passed them to extractDisplayTasks
    patchDoc,    \* the patch document as the last call left it
    crossPairs,  \* pairs of the variants x tasks cross-product of the last call
    tvp,         \* TaskVariantPairs returned by extractDisplayTasks
    found,       \* result of the last FindTaskForVariant (pointer)
    idConfig,    \* TaskIdConfig returned by the last table construction
    allBVTs,     \* units returned by the last FindAllBuildVariantTasks
    argUnit,     \* the BuildVariantTaskUnit before Populate was applied to it
    argProjectTask, \* the ProjectTask passed to Populate
    unit,        \* the BuildVariantTaskUnit as the calls of Populate left it
    populates,   \* number of calls of Populate on unit so far
    argAlias,    \* what FindAliasInProject gave the last alias resolution
    aliasOut,    \* pairs, display pairs and error of the last alias resolution
    argTaskGroup, \* the group name passed to GetTaskGroup
    argTc,       \* the *TaskConfig passed to GetTaskGroup
    tgOut,       \* what GetTaskGroup returned
    env,         \* what the collaborators of the event meta-job will answer
    step,        \* the position of the event meta-job in Run
    job,         \* the eventMetaJob: q, flags, events, errors, completion
    cursor,      \* the index of the running loop of dispatchLoop
    notifications, \* dispatchLoop's notifications, one list per event
    catcher,     \* the errors dispatchLoop's catcher holds
    calls        \* the calls made on the collaborators, in order

\* arguments and results of the calls on a project
callVars == <<op, argVariants, argTasks, argPairs, argVersion, fault,
              alias, expanded, selected, patchDoc, crossPairs, tvp, found,
              idConfig, allBVTs>>

\* the unit a sequence of Populate calls works on
mergeVars == <<argUnit, argProjectTask, unit, populates>>

\* the alias resolution
aliasVars == <<argAlias, aliasOut>>

\* the task group lookup
groupVars == <<argTaskGroup, argTc, tgOut>>

\* the event meta-job
jobVars == <<env, step, job, cursor, notifications, catcher, calls>>

vars == <<proj, callVars, mergeVars, aliasVars, groupVars, jobVars>>

----------------------------------------------------------------------------
(* Bounds of the model.                                                    *)

\* longest requested variant list, task list and pair list of a call
MaxRequest == 2
\* latest version creation time (seconds after 18-01-01 00:00:00)
MaxCreateTime == 1

----------------------------------------------------------------------------
(* Generic helpers.                                                        *)

Range(s) == {s[i] : i \in DOMAIN s}

StringSliceContains(slice, item) == \E i \in DOMAIN slice : slice[i] = item

RECURSIVE Concat(_)
\* the concatenation of a sequence of sequences
Concat(ss) == IF ss = <<>> THEN <<>> ELSE Head(ss) \o Concat(Tail(ss))

PtrBool == {"nil", "true", "false"}

TVPair(v, t) == [Variant |-> v, TaskName |-> t]

EmptyPairs == [ExecTasks |-> <<>>, DisplayTasks |-> <<>>]

----------------------------------------------------------------------------
(* Data model.                                                             *)

ProjectTask(name, patchable, tags) ==
    [Name |-> name, Priority |-> 0, ExecTimeoutSecs |-> 0, DependsOn |-> <<>>,
     Requires |-> <<>>, Tags |-> tags, Patchable |-> patchable,
     Stepback |-> "nil"]

\* a dependency on a task of a variant ("" is the variant of the dependent)
TaskUnitDependency(name, variant) ==
    [Name |-> name, Variant |-> variant, PatchOptional |-> FALSE]

TaskUnitRequirement(name, variant) == [Name |-> name, Variant |-> variant]

\* patch.VariantTasks of no variant.  VariantsTasks gives for each variant
\* its task names and its display-task names
NoVariantsTasks == [v \in {} |-> [Tasks |-> {}, DisplayTasks |-> {}]]

\* a patch.Patch with the requested variants and tasks
Patch(variants, tasks) ==
    [BuildVariants |-> variants, Tasks |-> tasks,
     VariantsTasks |-> NoVariantsTasks]

BuildVariantTaskUnit(name, patchable) ==
    [Name |-> name, IsGroup |-> FALSE, GroupName |-> "",
     Patchable |-> patchable, Priority |-> 0, DependsOn |-> <<>>,
     Requires |-> <<>>, Distros |-> <<>>, ExecTimeoutSecs |-> 0,
     Stepback |-> "nil"]

DisplayTask(name, execTasks) == [Name |-> name, ExecutionTasks |-> execTasks]

TaskGroup(name, tasks) == [Name |-> name, Tasks |-> tasks]

BuildVariant(name, displayName, disabled, tasks, displayTasks) ==
    [Name |-> name, DisplayName |-> displayName, Disabled |-> disabled,
     Tasks |-> tasks, DisplayTasks |-> displayTasks]

----------------------------------------------------------------------------
(* Override merge.                                                         *)

\* Populate with the project task's priority always taken
PopulateOverwriting(bvt, pt) ==
    [bvt EXCEPT
       !.DependsOn = IF Len(bvt.DependsOn) = 0 THEN pt.DependsOn ELSE @,
       !.Requires = IF Len(bvt.Requires) = 0 THEN pt.Requires ELSE @,
       !.Priority = pt.Priority,
       !.Patchable = IF bvt.Patchable = "nil" THEN pt.Patchable ELSE @,
       !.ExecTimeoutSecs =
           IF bvt.ExecTimeoutSecs = 0 THEN pt.ExecTimeoutSecs ELSE @,
       !.Stepback = IF bvt.Stepback = "nil" THEN pt.Stepback ELSE @]

\* Populate with the project task's dependencies added to the unit's
PopulateAppending(bvt, pt) ==
    [bvt EXCEPT
       !.DependsOn = @ \o pt.DependsOn,
       !.Requires = IF Len(bvt.Requires) = 0 THEN pt.Requires ELSE @,
       !.Priority = IF bvt.Priority = 0 THEN pt.Priority ELSE @,
       !.Patchable = IF bvt.Patchable = "nil" THEN pt.Patchable ELSE @,
       !.ExecTimeoutSecs =
           IF bvt.ExecTimeoutSecs = 0 THEN pt.ExecTimeoutSecs ELSE @,
       !.Stepback = IF bvt.Stepback = "nil" THEN pt.Stepback ELSE @]

Populate(bvt, pt) ==
    [bvt EXCEPT
       !.DependsOn = IF Len(bvt.DependsOn) = 0 THEN pt.DependsOn ELSE @,
       !.Requires = IF Len(bvt.Requires) = 0 THEN pt.Requires ELSE @,
       !.Priority = IF bvt.Priority = 0 THEN pt.Priority ELSE @,
       !.Patchable = IF bvt.Patchable = "nil" THEN pt.Patchable ELSE @,
       !.ExecTimeoutSecs =
           IF bvt.ExecTimeoutSecs = 0 THEN pt.ExecTimeoutSecs ELSE @,
       !.Stepback = IF bvt.Stepback = "nil" THEN pt.Stepback ELSE @]

----------------------------------------------------------------------------
(* Structural lookups.                                                     *)

\* index of the first element of s with the given Name, 0 when there is none
FirstNamed(s, name) ==
    IF \E i \in DOMAIN s : s[i].Name = name
    THEN CHOOSE i \in DOMAIN s :
            /\ s[i].Name = name
            /\ \A j \in 1..(i - 1) : s[j].Name # name
    ELSE 0

FindBuildVariant(p, build) ==
    LET i == FirstNamed(p.BuildVariants, build)
    IN  IF i = 0 THEN <<>> ELSE <<p.BuildVariants[i]>>

FindProjectTask(p, name) ==
    LET i == FirstNamed(p.Tasks, name)
    IN  IF i = 0 THEN <<>> ELSE <<p.Tasks[i]>>

FindTaskGroup(p, name) ==
    LET i == FirstNamed(p.TaskGroups, name)
    IN  IF i = 0 THEN <<>> ELSE <<p.TaskGroups[i]>>

\* tgMap[tg.Name] = tg for tg in p.TaskGroups: a later group of the same
\* name replaces an earlier one
TgMap(p) ==
    [n \in {p.TaskGroups[i].Name : i \in DOMAIN p.TaskGroups} |->
        LET last == CHOOSE i \in DOMAIN p.TaskGroups :
                       /\ p.TaskGroups[i].Name = n
                       /\ \A j \in DOMAIN p.TaskGroups :
                             (j > i) => p.TaskGroups[j].Name # n
        IN  p.TaskGroups[last]]

NotFound == [fault |-> FALSE, bvt |-> <<>>]
Panic == [fault |-> TRUE, bvt |-> <<>>]
Found(bvt) == [fault |-> FALSE, bvt |-> <<bvt>>]

RECURSIVE FindTaskInUnits(_, _, _, _)
\* the loop of FindTaskForVariant over bv.Tasks, from unit i on
FindTaskInUnits(p, units, task, i) ==
    IF i > Len(units) THEN NotFound
    ELSE
      LET bvt == units[i]
          pt == FindProjectTask(p, task)
          tgMap == TgMap(p)
      IN  IF bvt.Name = task /\ pt # <<>>
          THEN Found(Populate(bvt, pt[1]))
          ELSE IF /\ bvt.Name \in DOMAIN tgMap
                  /\ StringSliceContains(tgMap[bvt.Name].Tasks, task)
               THEN IF pt = <<>>
                    THEN Panic  \* *p.FindProjectTask(task) with a nil pointer
                    ELSE Found(Populate(bvt, pt[1]))
               ELSE FindTaskInUnits(p, units, task, i + 1)

FindTaskForVariant(p, task, variant) ==
    LET bv == FindBuildVariant(p, variant)
    IN  IF bv = <<>> THEN NotFound
        ELSE FindTaskInUnits(p, bv[1].Tasks, task, 1)

\* index of the last element of s with the given Name, 0 when there is none
LastNamed(s, name) ==
    IF \E i \in DOMAIN s : s[i].Name = name
    THEN CHOOSE i \in DOMAIN s :
            /\ s[i].Name = name
            /\ \A j \in DOMAIN s : (j > i) => s[j].Name # name
    ELSE 0

\* every unit of every variant whose name is a project task's, populated
\* from that task (tasksByName keeps the last task of a name); the units
\* are copies, the project's own units are not written
FindAllBuildVariantTasks(p) ==
    Concat([i \in DOMAIN p.BuildVariants |->
              Concat([j \in DOMAIN p.BuildVariants[i].Tasks |->
                        LET t == p.BuildVariants[i].Tasks[j]
                            k == LastNamed(p.Tasks, t.Name)
                        IN  IF k = 0 THEN <<>>
                            ELSE <<Populate(t, p.Tasks[k])>>])])

\* GetDisplayTaskNamek with the search going on to the last display task
\* that lists execTask
GetDisplayTaskNamekLast(bv, execTask) ==
    LET dts == bv.DisplayTasks
        hits == {i \in DOMAIN dts :
                    StringSliceContains(dts[i].ExecutionTasks, execTask)}
    IN  IF hits = {} THEN ""
        ELSE dts[CHOOSE i \in hits : \A j \in hits : i >= j].Name

\* name of the first display task of bv that lists execTask, "" when none
GetDisplayTaskNamek(bv, execTask) ==
    LET dts == bv.DisplayTasks
        hits == {i \in DOMAIN dts :
                    StringSliceContains(dts[i].ExecutionTasks, execTask)}
    IN  IF hits = {} THEN ""
        ELSE dts[CHOOSE i \in hits : \A j \in hits : i <= j].Name

----------------------------------------------------------------------------
(* Task-graph selector.                                                    *)

IsAll(names) == Len(names) = 1 /\ names[1] = "all"

NamesOf(s) == [i \in DOMAIN s |-> s[i].Name]

EnabledVariant(b) == ~b.Disabled

\* ExpandVariants without the skip of disabled variants
ExpandVariantsNoSkip(p, variants) ==
    IF IsAll(variants) THEN NamesOf(p.BuildVariants) ELSE variants

\* the variant wildcard: ["all"] becomes every variant that is not disabled
ExpandVariants(p, variants) ==
    IF IsAll(variants)
    THEN NamesOf(SelectSeq(p.BuildVariants, EnabledVariant))
    ELSE variants

PatchableTask(t) == ~(t.Patchable # "nil" /\ t.Patchable = "false")

\* the task wildcard: ["all"] becomes every project task whose own
\* Patchable is not false
ExpandTasks(p, tasks) ==
    IF IsAll(tasks)
    THEN NamesOf(SelectSeq(p.Tasks, PatchableTask))
    ELSE tasks

RECURSIVE CrossProductFrom(_, _, _, _)
\* the nested loop over variants and tasks from the k-th combination on,
\* variants outermost; a panic of FindTaskForVariant ends the loop
CrossProductFrom(p, variants, tasks, k) ==
    IF k > Len(variants) * Len(tasks) THEN [fault |-> FALSE, pairs |-> <<>>]
    ELSE
      LET v == variants[((k - 1) \div Len(tasks)) + 1]
          t == tasks[((k - 1) % Len(tasks)) + 1]
          r == FindTaskForVariant(p, t, v)
      IN  IF r.fault THEN [fault |-> TRUE, pairs |-> <<>>]
          ELSE
            LET rest == CrossProductFrom(p, variants, tasks, k + 1)
            IN  IF rest.fault THEN rest
                ELSE [fault |-> FALSE,
                      pairs |-> IF r.bvt # <<>>
                                THEN <<TVPair(v, t)>> \o rest.pairs
                                ELSE rest.pairs]

CrossProduct(p, variants, tasks) == CrossProductFrom(p, variants, tasks, 1)

----------------------------------------------------------------------------
(* Display-task expander.                                                  *)

RECURSIVE AddParents(_, _, _, _)
\* first loop of a variant: for each name of the task list as it was when
\* the loop began, append the display task that lists it, once per name.
\* st = [tasks, alreadyAdded]
AddParents(bv, snapshot, i, st) ==
    IF i > Len(snapshot) THEN st
    ELSE
      LET dt == GetDisplayTaskNamek(bv, snapshot[i])
      IN  IF dt # "" /\ dt \notin st.alreadyAdded
          THEN AddParents(bv, snapshot, i + 1,
                          [tasks |-> Append(st.tasks, dt),
                           alreadyAdded |-> st.alreadyAdded \cup {dt}])
          ELSE AddParents(bv, snapshot, i + 1, st)

RECURSIVE AddMembers(_, _, _, _)
\* second loop of a variant: each display task named in the task list
\* yields a display pair and one exec pair per execution task.
\* out = [pairs, displayTasks]
AddMembers(bv, tasks, i, out) ==
    IF i > Len(bv.DisplayTasks) THEN out
    ELSE
      LET dt == bv.DisplayTasks[i]
      IN  IF StringSliceContains(tasks, dt.Name)
          THEN AddMembers(bv, tasks, i + 1,
                 [pairs |-> out.pairs \o
                      [j \in DOMAIN dt.ExecutionTasks |->
                          TVPair(bv.Name, dt.ExecutionTasks[j])],
                  displayTasks |->
                      Append(out.displayTasks, TVPair(bv.Name, dt.Name))])
          ELSE AddMembers(bv, tasks, i + 1, out)

RECURSIVE ExtractFrom(_, _, _, _)
\* the loop over p.BuildVariants from variant i on.
\* st = [tasks, alreadyAdded, pairs, displayTasks]
ExtractFrom(p, variants, i, st) ==
    IF i > Len(p.BuildVariants) THEN st
    ELSE
      LET bv == p.BuildVariants[i]
      IN  IF ~StringSliceContains(variants, bv.Name)
          THEN ExtractFrom(p, variants, i + 1, st)
          ELSE
            LET up == AddParents(bv, st.tasks, 1,
                         [tasks |-> st.tasks,
                          alreadyAdded |-> st.alreadyAdded])
                down == AddMembers(bv, up.tasks, 1,
                           [pairs |-> st.pairs,
                            displayTasks |-> st.displayTasks])
            IN  ExtractFrom(p, variants, i + 1,
                   [tasks |-> up.tasks, alreadyAdded |-> up.alreadyAdded,
                    pairs |-> down.pairs,
                    displayTasks |-> down.displayTasks])

extractDisplayTasks(pairs, tasks, variants, p) ==
    LET st == ExtractFrom(p, variants, 1,
                 [tasks |-> tasks, alreadyAdded |-> {}, pairs |-> pairs,
                  displayTasks |-> <<>>])
    IN  [ExecTasks |-> st.pairs, DisplayTasks |-> st.displayTasks]

----------------------------------------------------------------------------
(* Task-id generator.                                                      *)

\* the characters of the strings that take part in an id
Chars(s) ==
    CASE s = "" -> <<>>
      [] s = "p" -> <<"p">>
      [] s = "a" -> <<"a">>
      [] s = "a_b" -> <<"a", "_", "b">>
      [] s = "a-b" -> <<"a", "-", "b">>
      [] s = "c" -> <<"c">>
      [] s = "b_c" -> <<"b", "_", "c">>
      [] s = "g" -> <<"g">>
      [] s = "d" -> <<"d">>
      [] s = "e" -> <<"e">>
      [] s = "zz" -> <<"z", "z">>
      [] s = "r" -> <<"r">>
      [] s = "r_x" -> <<"r", "_", "x">>
      [] s = "y" -> <<"y">>
      [] s = "x_y" -> <<"x", "_", "y">>
      [] s = "x-y" -> <<"x", "-", "y">>
      [] s = "patch_" -> <<"p", "a", "t", "c", "h", "_">>
      [] s = "display_" -> <<"d", "i", "s", "p", "l", "a", "y", "_">>
      [] s = "_" -> <<"_">>
      [] s = "display_d" -> <<"d", "i", "s", "p", "l", "a", "y", "_", "d">>
      [] s = "^a$" -> <<"^", "a", "$">>
      [] s = "^c$" -> <<"^", "c", "$">>
      [] s = "a.*" -> <<"a", ".", "*">>
      [] s = ".*" -> <<".", "*">>
      [] s = "(" -> <<"(">>
      [] s = "(?i)(A)" -> <<"(", "?", "i", ")", "(", "A", ")">>
      [] s = "a|c" -> <<"a", "|", "c">>
      [] s = "^\\pL+$" -> <<"^", "\\", "p", "L", "+", "$">>
      [] s = "[bd]" -> <<"[", "b", "d", "]">>
      [] s = "*" -> <<"*">>
      [] s = "[xz]+" -> <<"[", "x", "z", "]", "+">>
      [] s = "c**" -> <<"c", "*", "*">>

\* util.CleanName, the sanitizer of ids to a safe set of characters: read
\* here as dashes and spaces becoming underscores
CleanName(id) ==
    [i \in DOMAIN id |-> IF id[i] \in {"-", " "} THEN "_" ELSE id[i]]

\* evergreen.IsPatchRequester
IsPatchRequester(requester) ==
    requester \in {"patch_request", "github_pull_request"}

\* v.CreateTime.Format(build.IdTimeLayout), layout "06_01_02_15_04_05":
\* CreateTime is the second within 18-01-01 00:00
FormatCreateTime(t) ==
    <<"1", "8", "_", "0", "1", "_", "0", "1", "_", "0", "0", "_", "0", "0",
      "_", "0">> \o
    <<CASE t = 0 -> "0" [] t = 1 -> "1" [] t = 2 -> "2" [] t = 3 -> "3">>

\* generateId with the variant and the task name in each other's place
generateIdSwapped(name, p, projBV, rev, v) ==
    Chars(p.Identifier) \o Chars("_") \o name \o Chars("_") \o
    Chars(projBV.Name) \o Chars("_") \o rev \o Chars("_") \o
    FormatCreateTime(v.CreateTime)

\* fmt.Sprintf("%s_%s_%s_%s_%s", ...): name and rev are character sequences
generateId(name, p, projBV, rev, v) ==
    Chars(p.Identifier) \o Chars("_") \o Chars(projBV.Name) \o Chars("_") \o
    name \o Chars("_") \o rev \o Chars("_") \o FormatCreateTime(v.CreateTime)

\* the revision component with the revision alone for every requester
RevisionOfPlain(v) == Chars(v.Revision)

\* the revision component: the revision, or patch_<revision>_<version id>
RevisionOf(v) ==
    IF IsPatchRequester(v.Requester)
    THEN Chars("patch_") \o Chars(v.Revision) \o Chars("_") \o Chars(v.Id)
    ELSE Chars(v.Revision)

DisplayIdName(name) == Chars("display_") \o Chars(name)

\* tt[TVPair{variant, taskName}] = id
AddId(tt, variant, taskName, id) ==
    [k \in DOMAIN tt \cup {TVPair(variant, taskName)} |->
        IF k = TVPair(variant, taskName) THEN id ELSE tt[k]]

\* tt[TVPair{variant, taskName}], the empty string for a missing key
GetId(tt, variant, taskName) ==
    IF TVPair(variant, taskName) \in DOMAIN tt
    THEN tt[TVPair(variant, taskName)]
    ELSE <<>>

EmptyTable == [k \in {} |-> <<>>]

EmptyConfig == [ExecutionTasks |-> EmptyTable, DisplayTasks |-> EmptyTable]

RECURSIVE AddIds(_, _, _, _, _, _)
\* one table write per name of names, in order, each with the id of
\* prefix + name on variant bv
AddIds(tt, p, bv, v, names, i) ==
    IF i > Len(names) THEN tt
    ELSE AddIds(AddId(tt, bv.Name, names[i].key,
                      CleanName(generateId(names[i].text, p, bv,
                                           RevisionOf(v), v))),
                p, bv, v, names, i + 1)

\* a write of the id of an execution task / of a display task
ExecWrite(name) == [key |-> name, text |-> Chars(name)]
DisplayWrite(name) == [key |-> name, text |-> DisplayIdName(name)]

\* sort.Stable(p.BuildVariants) with Less on DisplayName: display names are
\* single letters, ordered as their letters
LetterRank(s) == CASE s = "x" -> 1 [] s = "y" -> 2 [] s = "z" -> 3

Less(b1, b2) == LetterRank(b1.DisplayName) < LetterRank(b2.DisplayName)

RECURSIVE InsertStable(_, _)
\* b goes behind every element that is not greater than it
InsertStable(sorted, b) ==
    IF sorted = <<>> THEN <<b>>
    ELSE IF Less(b, sorted[Len(sorted)])
         THEN Append(InsertStable(SubSeq(sorted, 1, Len(sorted) - 1), b),
                     sorted[Len(sorted)])
         ELSE Append(sorted, b)

RECURSIVE SortStable(_)
SortStable(bvs) ==
    IF bvs = <<>> THEN <<>>
    ELSE InsertStable(SortStable(SubSeq(bvs, 1, Len(bvs) - 1)), bvs[Len(bvs)])

\* the table writes of one variant with a write for each unit's own name
FullExecWritesUnitNames(p, bv) ==
    [i \in DOMAIN bv.Tasks |-> ExecWrite(bv.Tasks[i].Name)]

\* the table writes of one variant of the full table: members of a task
\* group for a unit that names a group, the unit itself otherwise
FullExecWrites(p, bv) ==
    Concat([i \in DOMAIN bv.Tasks |->
              LET tg == FindTaskGroup(p, bv.Tasks[i].Name)
              IN  IF tg # <<>>
                  THEN [j \in DOMAIN tg[1].Tasks |-> ExecWrite(tg[1].Tasks[j])]
                  ELSE <<ExecWrite(bv.Tasks[i].Name)>>])

FullDisplayWrites(bv) ==
    [i \in DOMAIN bv.DisplayTasks |-> DisplayWrite(bv.DisplayTasks[i].Name)]

RECURSIVE FullTables(_, _, _, _, _)
FullTables(p, bvs, v, i, config) ==
    IF i > Len(bvs) THEN config
    ELSE FullTables(p, bvs, v, i + 1,
           [ExecutionTasks |->
               AddIds(config.ExecutionTasks, p, bvs[i], v,
                      FullExecWrites(p, bvs[i]), 1),
            DisplayTasks |->
               AddIds(config.DisplayTasks, p, bvs[i], v,
                      FullDisplayWrites(bvs[i]), 1)])

\* NewTaskIdTable: the project with its variants sorted, and the tables
NewTaskIdTableOf(p, v) ==
    LET sorted == [p EXCEPT !.BuildVariants = SortStable(p.BuildVariants)]
    IN  [proj |-> sorted,
         config |-> FullTables(sorted, sorted.BuildVariants, v, 1,
                               EmptyConfig)]

RECURSIVE TaskNamesFrom(_, _, _, _)
TaskNamesFrom(tvps, variant, i, names) ==
    IF i > Len(tvps) THEN names
    ELSE IF tvps[i].Variant # variant \/ StringSliceContains(names, tvps[i].TaskName)
         THEN TaskNamesFrom(tvps, variant, i + 1, names)
         ELSE TaskNamesFrom(tvps, variant, i + 1,
                            Append(names, tvps[i].TaskName))

\* TVPairSet.TaskNames: the task names of the pairs of a variant, each once
TaskNames(tvps, variant) == TaskNamesFrom(tvps, variant, 1, <<>>)

\* the writes of the loop over projBV.Tasks
PatchExecWrites(projBV, taskNamesForVariant, tgMap) ==
    Concat([i \in DOMAIN projBV.Tasks |->
              LET t == projBV.Tasks[i]
              IN  IF StringSliceContains(taskNamesForVariant, t.Name)
                  THEN <<ExecWrite(t.Name)>>
                  ELSE IF t.Name \in DOMAIN tgMap
                       THEN [j \in DOMAIN tgMap[t.Name].Tasks |->
                                ExecWrite(tgMap[t.Name].Tasks[j])]
                       ELSE <<>>])

\* the writes of the loop over projBV.DisplayTasks
PatchDisplayWrites(projBV, taskNamesForVariant) ==
    Concat([i \in DOMAIN projBV.DisplayTasks |->
              IF StringSliceContains(taskNamesForVariant,
                                     projBV.DisplayTasks[i].Name)
              THEN <<DisplayWrite(projBV.DisplayTasks[i].Name)>>
              ELSE <<>>])

\* generateIdsForVariant: a nil projBV is dereferenced by the first loop
generateIdsForVariant(vt, p, v, tasks, table, tgMap) ==
    LET projBV == FindBuildVariant(p, vt.Variant)
        taskNamesForVariant == TaskNames(tasks, vt.Variant)
    IN  IF projBV = <<>> THEN [fault |-> TRUE, table |-> table]
        ELSE [fault |-> FALSE,
              table |->
                AddIds(AddIds(table, p, projBV[1], v,
                              PatchExecWrites(projBV[1], taskNamesForVariant,
                                              tgMap), 1),
                       p, projBV[1], v,
                       PatchDisplayWrites(projBV[1], taskNamesForVariant),
                       1)]

\* the request with each pair that names a task group replaced by one pair
\* per member of the group
ResolveTaskGroups(p, execTasks) ==
    Concat([i \in DOMAIN execTasks |->
              LET vt == execTasks[i]
                  tg == FindTaskGroup(p, vt.TaskName)
              IN  IF vt.TaskName \in DOMAIN TgMap(p)
                  THEN IF tg # <<>>
                       THEN [j \in DOMAIN tg[1].Tasks |->
                                TVPair(vt.Variant, tg[1].Tasks[j])]
                       ELSE <<>>
                  ELSE <<vt>>])

RECURSIVE IdsForPairs(_, _, _, _, _, _)
\* one generateIdsForVariant per distinct variant of tasks, in order of
\* first occurrence.  st = [fault, table, processedVariants]
IdsForPairs(p, v, tasks, tgMap, i, st) ==
    IF i > Len(tasks) \/ st.fault THEN st
    ELSE IF tasks[i].Variant \in st.processedVariants
         THEN IdsForPairs(p, v, tasks, tgMap, i + 1, st)
         ELSE
           LET r == generateIdsForVariant(tasks[i], p, v, tasks, st.table,
                                          tgMap)
           IN  IdsForPairs(p, v, tasks, tgMap, i + 1,
                  [fault |-> r.fault, table |-> r.table,
                   processedVariants |->
                       st.processedVariants \cup {tasks[i].Variant}])

\* NewPatchTaskIdTable
NewPatchTaskIdTableOf(p, v, tasks) ==
    LET tgMap == TgMap(p)
        execTasks == ResolveTaskGroups(p, tasks.ExecTasks)
        start == [fault |-> FALSE, table |-> EmptyTable,
                  processedVariants |-> {}]
        exec == IdsForPairs(p, v, execTasks, tgMap, 1, start)
        display == IdsForPairs(p, v, tasks.DisplayTasks, tgMap, 1, start)
    IN  IF exec.fault \/ display.fault
        THEN [fault |-> TRUE, config |-> EmptyConfig]
        ELSE [fault |-> FALSE,
              config |-> [ExecutionTasks |-> exec.table,
                          DisplayTasks |-> display.table]]

----------------------------------------------------------------------------
(* Regular expressions: the syntax and the matching of package regexp      *)
(* (RE2 syntax with the Perl extensions, as regexp.Compile reads it).      *)
(* A pattern and a text are sequences of one-character strings; the parser *)
(* turns a pattern into a tree, the matcher works on the codes of the      *)
(* characters.  A text of the model holds ASCII characters only; the       *)
(* tables of case folding and of the Unicode classes list what they hold   *)
(* among those characters and the two others that fold to them.            *)

\* the printable ASCII characters, the k-th having the code 31 + k (the
\* double quote and the grave accent stand by their names: no text of the
\* model holds them)
Printable ==
    <<" ", "!", "quote", "#", "$", "%", "&", "'", "(", ")", "*", "+", ",",
      "-", ".", "/", "0", "1", "2", "3", "4", "5", "6", "7", "8", "9", ":",
      ";", "<", "=", ">", "?", "@", "A", "B", "C", "D", "E", "F", "G", "H",
      "I", "J", "K", "L", "M", "N", "O", "P", "Q", "R", "S", "T", "U", "V",
      "W", "X", "Y", "Z", "[", "\\", "]", "^", "_", "grave", "a", "b", "c",
      "d", "e", "f", "g", "h", "i", "j", "k", "l", "m", "n", "o", "p", "q",
      "r", "s", "t", "u", "v", "w", "x", "y", "z", "{", "|", "}", "~">>

\* the code of an ASCII character
CodeOf ==
    [c \in Range(Printable) \cup {"\t", "\n", "\f", "\r"} |->
        CASE c = "\t" -> 9
          [] c = "\n" -> 10
          [] c = "\f" -> 12
          [] c = "\r" -> 13
          [] OTHER -> 31 + (CHOOSE k \in DOMAIN Printable : Printable[k] = c)]

Code(c) == CodeOf[c]

Codes(text) == [i \in DOMAIN text |-> Code(text[i])]

\* unicode.MaxRune
MaxRune == 1114111

\* the orbit of c under unicode.SimpleFold: c and the characters that
\* differ from it in case only.  c is an ASCII character or one of the two
\* others that fold to ASCII, U+017F (long s) and U+212A (Kelvin sign)
Orbit(c) ==
    CASE c \in {75, 107, 8490} -> {75, 107, 8490}
      [] c \in {83, 115, 383} -> {83, 115, 383}
      [] c >= 65 /\ c <= 90 /\ c \notin {75, 83} -> {c, c + 32}
      [] c >= 97 /\ c <= 122 /\ c \notin {107, 115} -> {c, c - 32}
      [] c <= 127 /\ ~(c >= 65 /\ c <= 90) /\ ~(c >= 97 /\ c <= 122) -> {c}

\* the nodes of a parsed pattern
Lit(c, fold) == [k |-> "lit", c |-> c, fold |-> fold]

\* ranges of codes, taken as they are or as their complement
ClassItem(ranges, neg) == [ranges |-> ranges, neg |-> neg]

CharClass(items, neg, fold) ==
    [k |-> "class", items |-> items, neg |-> neg, fold |-> fold]

\* bot, eot: begin and end of the text; bol, eol: of a line; wb, nwb: a
\* word boundary and none
Assertion(kind) == [k |-> kind]

Cat(subs) == [k |-> "cat", subs |-> subs]

Alt(subs) == [k |-> "alt", subs |-> subs]

\* op: "star", "plus", "quest" or "repeat" (a counted repetition);
\* max < 0: no upper bound
Rep(sub, repOp, min, max) ==
    [k |-> "rep", sub |-> sub, op |-> repOp, min |-> min, max |-> max]

ParseError == [ok |-> FALSE, node |-> <<>>, next |-> 0]

Parsed(node, next) == [ok |-> TRUE, node |-> node, next |-> next]

\* the flags i, m and s of the parser (U does not change what matches)
NoFlags == [i |-> FALSE, m |-> FALSE, s |-> FALSE]

DigitRanges == {<<48, 57>>}

WordRanges == {<<48, 57>>, <<65, 90>>, <<95, 95>>, <<97, 122>>}

SpaceRanges == {<<9, 10>>, <<12, 13>>, <<32, 32>>}

\* the Perl class of \d, \s, \w and, as complements, of \D, \S, \W
PerlClass(e) ==
    CASE e \in {"d", "D"} -> ClassItem(DigitRanges, e = "D")
      [] e \in {"s", "S"} -> ClassItem(SpaceRanges, e = "S")
      [] e \in {"w", "W"} -> ClassItem(WordRanges, e = "W")

\* the ranges of the POSIX class of the name, {} for a name that is none
PosixRanges(name) ==
    CASE name = <<"a", "l", "n", "u", "m">> ->
            {<<48, 57>>, <<65, 90>>, <<97, 122>>}
      [] name = <<"a", "l", "p", "h", "a">> -> {<<65, 90>>, <<97, 122>>}
      [] name = <<"a", "s", "c", "i", "i">> -> {<<0, 127>>}
      [] name = <<"b", "l", "a", "n", "k">> -> {<<9, 9>>, <<32, 32>>}
      [] name = <<"c", "n", "t", "r", "l">> -> {<<0, 31>>, <<127, 127>>}
      [] name = <<"d", "i", "g", "i", "t">> -> {<<48, 57>>}
      [] name = <<"g", "r", "a", "p", "h">> -> {<<33, 126>>}
      [] name = <<"l", "o", "w", "e", "r">> -> {<<97, 122>>}
      [] name = <<"p", "r", "i", "n", "t">> -> {<<32, 126>>}
      [] name = <<"p", "u", "n", "c", "t">> ->
            {<<33, 47>>, <<58, 64>>, <<91, 96>>, <<123, 126>>}
      [] name = <<"s", "p", "a", "c", "e">> -> {<<9, 13>>, <<32, 32>>}
      [] name = <<"u", "p", "p", "e", "r">> -> {<<65, 90>>}
      [] name = <<"w", "o", "r", "d">> ->
            {<<48, 57>>, <<65, 90>>, <<95, 95>>, <<97, 122>>}
      [] name = <<"x", "d", "i", "g", "i", "t">> ->
            {<<48, 57>>, <<65, 70>>, <<97, 102>>}
      [] OTHER -> {}

\* the names of unicode.Categories and unicode.Scripts that hold no ASCII
\* character and none that folds to one
ClassesElsewhere ==
    {<<"C", "f">>, <<"C", "o">>, <<"C", "s">>, <<"L", "m">>, <<"L", "o">>,
     <<"L", "t">>, <<"M">>, <<"M", "c">>, <<"M", "e">>, <<"M", "n">>,
     <<"N", "l">>, <<"N", "o">>, <<"P", "f">>, <<"P", "i">>, <<"S", "o">>,
     <<"Z", "l">>, <<"Z", "p">>, <<"A", "d", "l", "a", "m">>,
     <<"A", "h", "o", "m">>,
     <<"A", "n", "a", "t", "o", "l", "i", "a", "n", "_", "H", "i", "e", "r", "o", "g", "l", "y", "p", "h", "s">>,
     <<"A", "r", "a", "b", "i", "c">>,
     <<"A", "r", "m", "e", "n", "i", "a", "n">>,
     <<"A", "v", "e", "s", "t", "a", "n">>,
     <<"B", "a", "l", "i", "n", "e", "s", "e">>, <<"B", "a", "m", "u", "m">>,
     <<"B", "a", "s", "s", "a", "_", "V", "a", "h">>,
     <<"B", "a", "t", "a", "k">>, <<"B", "e", "n", "g", "a", "l", "i">>,
     <<"B", "h", "a", "i", "k", "s", "u", "k", "i">>,
     <<"B", "o", "p", "o", "m", "o", "f", "o">>,
     <<"B", "r", "a", "h", "m", "i">>, <<"B", "r", "a", "i", "l", "l", "e">>,
     <<"B", "u", "g", "i", "n", "e", "s", "e">>, <<"B", "u", "h", "i", "d">>,
     <<"C", "a", "n", "a", "d", "i", "a", "n", "_", "A", "b", "o", "r", "i", "g", "i", "n", "a", "l">>,
     <<"C", "a", "r", "i", "a", "n">>,
     <<"C", "a", "u", "c", "a", "s", "i", "a", "n", "_", "A", "l", "b", "a", "n", "i", "a", "n">>,
     <<"C", "h", "a", "k", "m", "a">>, <<"C", "h", "a", "m">>,
     <<"C", "h", "e", "r", "o", "k", "e", "e">>,
     <<"C", "o", "p", "t", "i", "c">>,
     <<"C", "u", "n", "e", "i", "f", "o", "r", "m">>,
     <<"C", "y", "p", "r", "i", "o", "t">>,
     <<"C", "y", "r", "i", "l", "l", "i", "c">>,
     <<"D", "e", "s", "e", "r", "e", "t">>,
     <<"D", "e", "v", "a", "n", "a", "g", "a", "r", "i">>,
     <<"D", "u", "p", "l", "o", "y", "a", "n">>,
     <<"E", "g", "y", "p", "t", "i", "a", "n", "_", "H", "i", "e", "r", "o", "g", "l", "y", "p", "h", "s">>,
     <<"E", "l", "b", "a", "s", "a", "n">>,
     <<"E", "t", "h", "i", "o", "p", "i", "c">>,
     <<"G", "e", "o", "r", "g", "i", "a", "n">>,
     <<"G", "l", "a", "g", "o", "l", "i", "t", "i", "c">>,
     <<"G", "o", "t", "h", "i", "c">>, <<"G", "r", "a", "n", "t", "h", "a">>,
     <<"G", "r", "e", "e", "k">>, <<"G", "u", "j", "a", "r", "a", "t", "i">>,
     <<"G", "u", "r", "m", "u", "k", "h", "i">>, <<"H", "a", "n">>,
     <<"H", "a", "n", "g", "u", "l">>, <<"H", "a", "n", "u", "n", "o", "o">>,
     <<"H", "a", "t", "r", "a", "n">>, <<"H", "e", "b", "r", "e", "w">>,
     <<"H", "i", "r", "a", "g", "a", "n", "a">>,
     <<"I", "m", "p", "e", "r", "i", "a", "l", "_", "A", "r", "a", "m", "a", "i", "c">>,
     <<"I", "n", "h", "e", "r", "i", "t", "e", "d">>,
     <<"I", "n", "s", "c", "r", "i", "p", "t", "i", "o", "n", "a", "l", "_", "P", "a", "h", "l", "a", "v", "i">>,
     <<"I", "n", "s", "c", "r", "i", "p", "t", "i", "o", "n", "a", "l", "_", "P", "a", "r", "t", "h", "i", "a", "n">>,
     <<"J", "a", "v", "a", "n", "e", "s", "e">>,
     <<"K", "a", "i", "t", "h", "i">>, <<"K", "a", "n", "n", "a", "d", "a">>,
     <<"K", "a", "t", "a", "k", "a", "n", "a">>,
     <<"K", "a", "y", "a", "h", "_", "L", "i">>,
     <<"K", "h", "a", "r", "o", "s", "h", "t", "h", "i">>,
     <<"K", "h", "m", "e", "r">>, <<"K", "h", "o", "j", "k", "i">>,
     <<"K", "h", "u", "d", "a", "w", "a", "d", "i">>, <<"L", "a", "o">>,
     <<"L", "e", "p", "c", "h", "a">>, <<"L", "i", "m", "b", "u">>,
     <<"L", "i", "n", "e", "a", "r", "_", "A">>,
     <<"L", "i", "n", "e", "a", "r", "_", "B">>, <<"L", "i", "s", "u">>,
     <<"L", "y", "c", "i", "a", "n">>, <<"L", "y", "d", "i", "a", "n">>,
     <<"M", "a", "h", "a", "j", "a", "n", "i">>,
     <<"M", "a", "l", "a", "y", "a", "l", "a", "m">>,
     <<"M", "a", "n", "d", "a", "i", "c">>,
     <<"M", "a", "n", "i", "c", "h", "a", "e", "a", "n">>,
     <<"M", "a", "r", "c", "h", "e", "n">>,
     <<"M", "a", "s", "a", "r", "a", "m", "_", "G", "o", "n", "d", "i">>,
     <<"M", "e", "e", "t", "e", "i", "_", "M", "a", "y", "e", "k">>,
     <<"M", "e", "n", "d", "e", "_", "K", "i", "k", "a", "k", "u", "i">>,
     <<"M", "e", "r", "o", "i", "t", "i", "c", "_", "C", "u", "r", "s", "i", "v", "e">>,
     <<"M", "e", "r", "o", "i", "t", "i", "c", "_", "H", "i", "e", "r", "o", "g", "l", "y", "p", "h", "s">>,
     <<"M", "i", "a", "o">>, <<"M", "o", "d", "i">>,
     <<"M", "o", "n", "g", "o", "l", "i", "a", "n">>, <<"M", "r", "o">>,
     <<"M", "u", "l", "t", "a", "n", "i">>,
     <<"M", "y", "a", "n", "m", "a", "r">>,
     <<"N", "a", "b", "a", "t", "a", "e", "a", "n">>,
     <<"N", "e", "w", "_", "T", "a", "i", "_", "L", "u", "e">>,
     <<"N", "e", "w", "a">>, <<"N", "k", "o">>, <<"N", "u", "s", "h", "u">>,
     <<"O", "g", "h", "a", "m">>, <<"O", "l", "_", "C", "h", "i", "k", "i">>,
     <<"O", "l", "d", "_", "H", "u", "n", "g", "a", "r", "i", "a", "n">>,
     <<"O", "l", "d", "_", "I", "t", "a", "l", "i", "c">>,
     <<"O", "l", "d", "_", "N", "o", "r", "t", "h", "_", "A", "r", "a", "b", "i", "a", "n">>,
     <<"O", "l", "d", "_", "P", "e", "r", "m", "i", "c">>,
     <<"O", "l", "d", "_", "P", "e", "r", "s", "i", "a", "n">>,
     <<"O", "l", "d", "_", "S", "o", "u", "t", "h", "_", "A", "r", "a", "b", "i", "a", "n">>,
     <<"O", "l", "d", "_", "T", "u", "r", "k", "i", "c">>,
     <<"O", "r", "i", "y", "a">>, <<"O", "s", "a", "g", "e">>,
     <<"O", "s", "m", "a", "n", "y", "a">>,
     <<"P", "a", "h", "a", "w", "h", "_", "H", "m", "o", "n", "g">>,
     <<"P", "a", "l", "m", "y", "r", "e", "n", "e">>,
     <<"P", "a", "u", "_", "C", "i", "n", "_", "H", "a", "u">>,
     <<"P", "h", "a", "g", "s", "_", "P", "a">>,
     <<"P", "h", "o", "e", "n", "i", "c", "i", "a", "n">>,
     <<"P", "s", "a", "l", "t", "e", "r", "_", "P", "a", "h", "l", "a", "v", "i">>,
     <<"R", "e", "j", "a", "n", "g">>, <<"R", "u", "n", "i", "c">>,
     <<"S", "a", "m", "a", "r", "i", "t", "a", "n">>,
     <<"S", "a", "u", "r", "a", "s", "h", "t", "r", "a">>,
     <<"S", "h", "a", "r", "a", "d", "a">>,
     <<"S", "h", "a", "v", "i", "a", "n">>,
     <<"S", "i", "d", "d", "h", "a", "m">>,
     <<"S", "i", "g", "n", "W", "r", "i", "t", "i", "n", "g">>,
     <<"S", "i", "n", "h", "a", "l", "a">>,
     <<"S", "o", "r", "a", "_", "S", "o", "m", "p", "e", "n", "g">>,
     <<"S", "o", "y", "o", "m", "b", "o">>,
     <<"S", "u", "n", "d", "a", "n", "e", "s", "e">>,
     <<"S", "y", "l", "o", "t", "i", "_", "N", "a", "g", "r", "i">>,
     <<"S", "y", "r", "i", "a", "c">>, <<"T", "a", "g", "a", "l", "o", "g">>,
     <<"T", "a", "g", "b", "a", "n", "w", "a">>,
     <<"T", "a", "i", "_", "L", "e">>,
     <<"T", "a", "i", "_", "T", "h", "a", "m">>,
     <<"T", "a", "i", "_", "V", "i", "e", "t">>, <<"T", "a", "k", "r", "i">>,
     <<"T", "a", "m", "i", "l">>, <<"T", "a", "n", "g", "u", "t">>,
     <<"T", "e", "l", "u", "g", "u">>, <<"T", "h", "a", "a", "n", "a">>,
     <<"T", "h", "a", "i">>, <<"T", "i", "b", "e", "t", "a", "n">>,
     <<"T", "i", "f", "i", "n", "a", "g", "h">>,
     <<"T", "i", "r", "h", "u", "t", "a">>,
     <<"U", "g", "a", "r", "i", "t", "i", "c">>, <<"V", "a", "i">>,
     <<"W", "a", "r", "a", "n", "g", "_", "C", "i", "t", "i">>, <<"Y", "i">>,
     <<"Z", "a", "n", "a", "b", "a", "z", "a", "r", "_", "S", "q", "u", "a", "r", "e">>}

\* unicodeTable(name): the members of the category or script among the
\* ASCII characters, U+017F and U+212A; ok is FALSE for a name that is none
UnicodeTable(name) ==
    LET table(ranges) == [ok |-> TRUE, ranges |-> ranges]
    IN  CASE name = <<"C">> ->
             table({<<0, 31>>, <<127, 127>>})
          [] name = <<"C", "c">> ->
             table({<<0, 31>>, <<127, 127>>})
          [] name = <<"L">> ->
             table({<<65, 90>>, <<97, 122>>, <<383, 383>>, <<8490, 8490>>})
          [] name = <<"L", "l">> ->
             table({<<97, 122>>, <<383, 383>>})
          [] name = <<"L", "u">> ->
             table({<<65, 90>>, <<8490, 8490>>})
          [] name = <<"N">> ->
             table({<<48, 57>>})
          [] name = <<"N", "d">> ->
             table({<<48, 57>>})
          [] name = <<"P">> ->
             table({<<33, 35>>, <<37, 42>>, <<44, 47>>, <<58, 59>>, <<63, 64>>,
             <<91, 93>>, <<95, 95>>, <<123, 123>>, <<125, 125>>})
          [] name = <<"P", "c">> ->
             table({<<95, 95>>})
          [] name = <<"P", "d">> ->
             table({<<45, 45>>})
          [] name = <<"P", "s">> ->
             table({<<40, 40>>, <<91, 91>>, <<123, 123>>})
          [] name = <<"P", "e">> ->
             table({<<41, 41>>, <<93, 93>>, <<125, 125>>})
          [] name = <<"P", "o">> ->
             table({<<33, 35>>, <<37, 39>>, <<42, 42>>, <<44, 44>>, <<46, 47>>,
             <<58, 59>>, <<63, 64>>, <<92, 92>>})
          [] name = <<"S">> ->
             table({<<36, 36>>, <<43, 43>>, <<60, 62>>, <<94, 94>>, <<96, 96>>,
             <<124, 124>>, <<126, 126>>})
          [] name = <<"S", "c">> ->
             table({<<36, 36>>})
          [] name = <<"S", "k">> ->
             table({<<94, 94>>, <<96, 96>>})
          [] name = <<"S", "m">> ->
             table({<<43, 43>>, <<60, 62>>, <<124, 124>>, <<126, 126>>})
          [] name = <<"Z">> ->
             table({<<32, 32>>})
          [] name = <<"Z", "s">> ->
             table({<<32, 32>>})
          [] name = <<"L", "a", "t", "i", "n">> ->
             table({<<65, 90>>, <<97, 122>>, <<383, 383>>, <<8490, 8490>>})
          [] name = <<"C", "o", "m", "m", "o", "n">> ->
             table({<<0, 64>>, <<91, 96>>, <<123, 127>>})
          [] name = <<"A", "n", "y">> ->
             table({<<0, MaxRune>>})
          [] name \in ClassesElsewhere -> table({})
          [] OTHER -> [ok |-> FALSE, ranges |-> {}]

\* the first index from i on where the character c stands, 0 when it
\* stands nowhere
IndexOfChar(re, i, c) ==
    IF \E j \in i..Len(re) : re[j] = c
    THEN CHOOSE j \in i..Len(re) :
            re[j] = c /\ \A h \in i..(j - 1) : re[h] # c
    ELSE 0

\* parseUnicodeClass: the \pN, \p{Name}, \PN or \P{Name} at re[i]; a name
\* that begins with ^ is the complement
ParseUnicodeClass(re, i) ==
    LET bad == [ok |-> FALSE, item |-> <<>>, next |-> 0]
        class(neg, tab, next) ==
           IF tab.ok
           THEN [ok |-> TRUE, item |-> ClassItem(tab.ranges, neg),
                 next |-> next]
           ELSE bad
        named(neg, name, next) ==
           IF name # <<>> /\ name[1] = "^"
           THEN class(~neg, UnicodeTable(Tail(name)), next)
           ELSE class(neg, UnicodeTable(name), next)
        braces(end) ==
           IF end = 0 THEN bad
           ELSE named(re[i + 1] = "P", SubSeq(re, i + 3, end - 1), end + 1)
    IN  IF i + 2 > Len(re) THEN bad
        ELSE IF re[i + 2] = "{" THEN braces(IndexOfChar(re, i + 3, "}"))
        ELSE named(re[i + 1] = "P", <<re[i + 2]>>, i + 3)

IsOctal(c) == c \in {"0", "1", "2", "3", "4", "5", "6", "7"}

IsDecimal(c) == IsOctal(c) \/ c \in {"8", "9"}

\* the value of a hexadecimal digit, -1 for another character
Unhex(c) ==
    LET val(n) ==
           IF n >= 48 /\ n <= 57 THEN n - 48
           ELSE IF n >= 97 /\ n <= 102 THEN n - 97 + 10
           ELSE IF n >= 65 /\ n <= 70 THEN n - 65 + 10
           ELSE -1
    IN  val(Code(c))

\* isalnum of the parser
IsAlnum(c) ==
    LET alnum(n) ==
           \/ n >= 48 /\ n <= 57
           \/ n >= 65 /\ n <= 90
           \/ n >= 97 /\ n <= 122
    IN  alnum(Code(c))

RECURSIVE OctalFrom(_, _, _, _)
\* up to left more octal digits from re[i] on, after the value r
OctalFrom(re, i, r, left) ==
    IF left = 0 \/ i > Len(re) \/ ~IsOctal(re[i])
    THEN [ok |-> TRUE, c |-> r, next |-> i]
    ELSE OctalFrom(re, i + 1, r * 8 + Code(re[i]) - 48, left - 1)

RECURSIVE HexInBraces(_, _, _, _)
\* the digits of \x{...} from re[i] on, after n digits of the value r
HexInBraces(re, i, r, n) ==
    LET digit(v) ==
           IF v < 0 \/ r * 16 + v > MaxRune
           THEN [ok |-> FALSE, c |-> 0, next |-> 0]
           ELSE HexInBraces(re, i + 1, r * 16 + v, n + 1)
    IN  IF i > Len(re) THEN [ok |-> FALSE, c |-> 0, next |-> 0]
        ELSE IF re[i] = "}"
        THEN IF n = 0 THEN [ok |-> FALSE, c |-> 0, next |-> 0]
             ELSE [ok |-> TRUE, c |-> r, next |-> i + 1]
        ELSE digit(Unhex(re[i]))

\* parseEscape: the character of the escape that begins with the backslash
\* re[i]
ParseEscape(re, i) ==
    LET bad == [ok |-> FALSE, c |-> 0, next |-> 0]
        one(c) == [ok |-> TRUE, c |-> c, next |-> i + 2]
        hex(x, y) ==
           IF x < 0 \/ y < 0 THEN bad
           ELSE [ok |-> TRUE, c |-> x * 16 + y, next |-> i + 4]
    IN  IF i >= Len(re) THEN bad
        ELSE
          LET e == re[i + 1]
          IN  CASE e \in {"1", "2", "3", "4", "5", "6", "7"} ->
                      IF i + 2 <= Len(re) /\ IsOctal(re[i + 2])
                      THEN OctalFrom(re, i + 2, Code(e) - 48, 2)
                      ELSE bad
                [] e = "0" -> OctalFrom(re, i + 2, 0, 2)
                [] e = "x" ->
                      IF i + 2 > Len(re) THEN bad
                      ELSE IF re[i + 2] = "{" THEN HexInBraces(re, i + 3, 0, 0)
                      ELSE IF i + 3 > Len(re) THEN bad
                      ELSE hex(Unhex(re[i + 2]), Unhex(re[i + 3]))
                [] e = "a" -> one(7)
                [] e = "f" -> one(12)
                [] e = "n" -> one(10)
                [] e = "r" -> one(13)
                [] e = "t" -> one(9)
                [] e = "v" -> one(11)
                [] OTHER -> IF IsAlnum(e) THEN bad ELSE one(Code(e))

RECURSIVE DecimalFrom(_, _, _)
\* the digits from re[i] on, after the value r (capped, as every value over
\* 1000 is too big for a repetition)
DecimalFrom(re, i, r) ==
    IF i > Len(re) \/ ~IsDecimal(re[i]) THEN [val |-> r, next |-> i]
    ELSE DecimalFrom(re, i + 1,
                     IF r > 1000 THEN r ELSE r * 10 + Code(re[i]) - 48)

\* parseInt: a number without a leading zero at re[i]
ParseInt(re, i) ==
    LET number(d) == [ok |-> TRUE, val |-> d.val, next |-> d.next]
    IN  IF i > Len(re) \/ ~IsDecimal(re[i])
        THEN [ok |-> FALSE, val |-> 0, next |-> 0]
        ELSE IF re[i] = "0" /\ i < Len(re) /\ IsDecimal(re[i + 1])
        THEN [ok |-> FALSE, val |-> 0, next |-> 0]
        ELSE number(DecimalFrom(re, i, 0))

\* parseRepeat: the {n}, {n,} or {n,m} at re[i]; ok is FALSE when the brace
\* does not begin a repetition and is a literal
ParseRepeat(re, i) ==
    LET no == [ok |-> FALSE, min |-> 0, max |-> 0, next |-> 0]
        upTo(lo, hi) ==
           IF ~hi.ok \/ hi.next > Len(re) \/ re[hi.next] # "}" THEN no
           ELSE [ok |-> TRUE, min |-> lo.val, max |-> hi.val,
                 next |-> hi.next + 1]
        from(lo) ==
           IF ~lo.ok \/ lo.next > Len(re) THEN no
           ELSE IF re[lo.next] = "}"
           THEN [ok |-> TRUE, min |-> lo.val, max |-> lo.val,
                 next |-> lo.next + 1]
           ELSE IF re[lo.next] # "," \/ lo.next + 1 > Len(re) THEN no
           ELSE IF re[lo.next + 1] = "}"
           THEN [ok |-> TRUE, min |-> lo.val, max |-> -1,
                 next |-> lo.next + 2]
           ELSE upTo(lo, ParseInt(re, lo.next + 1))
    IN  from(ParseInt(re, i + 1))

\* the first index from i on where the two characters c, d stand, 0 when
\* they stand nowhere
IndexOfPair(re, i, c, d) ==
    IF \E j \in i..(Len(re) - 1) : re[j] = c /\ re[j + 1] = d
    THEN CHOOSE j \in i..(Len(re) - 1) :
            /\ re[j] = c /\ re[j + 1] = d
            /\ \A h \in i..(j - 1) : ~(re[h] = c /\ re[h + 1] = d)
    ELSE 0

\* maybeParseNamedClass: the [:name:] at re[i].  named is FALSE when the
\* bracket begins no such class; ok is FALSE for a name that is none
ParseNamedClass(re, i) ==
    LET class(neg, ranges, next) ==
           [named |-> TRUE, ok |-> ranges # {},
            item |-> ClassItem(ranges, neg), next |-> next]
        named(end, neg) ==
           class(neg,
                 PosixRanges(SubSeq(re, IF neg THEN i + 3 ELSE i + 2,
                                    end - 1)),
                 end + 2)
        upTo(end) ==
           IF end = 0
           THEN [named |-> FALSE, ok |-> TRUE, item |-> <<>>, next |-> 0]
           ELSE named(end, end > i + 2 /\ re[i + 2] = "^")
    IN  upTo(IndexOfPair(re, i + 2, ":", "]"))

\* parseClassChar: the character at re[i] of a bracket expression
ParseClassChar(re, i) ==
    IF i > Len(re) THEN [ok |-> FALSE, c |-> 0, next |-> 0]
    ELSE IF re[i] = "\\" THEN ParseEscape(re, i)
    ELSE [ok |-> TRUE, c |-> Code(re[i]), next |-> i + 1]

RECURSIVE ParseClassItems(_, _, _, _)
\* the items of a bracket expression from re[i] on up to its closing
\* bracket; first: no item has been read yet
ParseClassItems(re, i, first, items) ==
    LET bad == [ok |-> FALSE, items |-> {}, next |-> 0]
        range(lo, hi) ==
           IF ~hi.ok \/ hi.c < lo.c THEN bad
           ELSE ParseClassItems(re, hi.next, FALSE,
                   items \cup {ClassItem({<<lo.c, hi.c>>}, FALSE)})
        char(lo) ==
           IF ~lo.ok THEN bad
           ELSE IF /\ lo.next + 1 <= Len(re)
                   /\ re[lo.next] = "-"
                   /\ re[lo.next + 1] # "]"
           THEN range(lo, ParseClassChar(re, lo.next + 1))
           ELSE ParseClassItems(re, lo.next, FALSE,
                   items \cup {ClassItem({<<lo.c, lo.c>>}, FALSE)})
        unicode(u) ==
           IF u.ok
           THEN ParseClassItems(re, u.next, FALSE, items \cup {u.item})
           ELSE bad
        item(posix) ==
           IF i + 2 <= Len(re) /\ re[i] = "[" /\ re[i + 1] = ":" /\ posix.named
           THEN IF posix.ok
                THEN ParseClassItems(re, posix.next, FALSE,
                                     items \cup {posix.item})
                ELSE bad
           ELSE IF i < Len(re) /\ re[i] = "\\" /\ re[i + 1] \in {"p", "P"}
           THEN unicode(ParseUnicodeClass(re, i))
           ELSE IF /\ i < Len(re)
                   /\ re[i] = "\\"
                   /\ re[i + 1] \in {"d", "s", "w", "D", "S", "W"}
           THEN ParseClassItems(re, i + 2, FALSE,
                                items \cup {PerlClass(re[i + 1])})
           ELSE char(ParseClassChar(re, i))
    IN  IF i <= Len(re) /\ re[i] = "]" /\ ~first
        THEN [ok |-> TRUE, items |-> items, next |-> i + 1]
        ELSE item(ParseNamedClass(re, i))

\* parseClass: the bracket expression at re[i]
ParseClass(re, i, fl) ==
    LET class(neg, body) ==
           IF body.ok THEN Parsed(CharClass(body.items, neg, fl.i), body.next)
           ELSE ParseError
        from(neg) ==
           class(neg,
                 ParseClassItems(re, IF neg THEN i + 2 ELSE i + 1, TRUE, {}))
    IN  from(i < Len(re) /\ re[i + 1] = "^")

RECURSIVE FlagsFrom(_, _, _, _, _)
\* the flags of a (?flags) or (?flags:...) from re[i] on; group: the
\* parenthesis opens a group
FlagsFrom(re, i, fl, sign, sawFlag) ==
    LET bad == [ok |-> FALSE, group |-> FALSE, flags |-> fl, next |-> 0]
    IN  IF i > Len(re) THEN bad
        ELSE CASE re[i] = "i" ->
                     FlagsFrom(re, i + 1, [fl EXCEPT !.i = sign > 0], sign,
                               TRUE)
               [] re[i] = "m" ->
                     FlagsFrom(re, i + 1, [fl EXCEPT !.m = sign > 0], sign,
                               TRUE)
               [] re[i] = "s" ->
                     FlagsFrom(re, i + 1, [fl EXCEPT !.s = sign > 0], sign,
                               TRUE)
               [] re[i] = "U" -> FlagsFrom(re, i + 1, fl, sign, TRUE)
               [] re[i] = "-" ->
                     IF sign < 0 THEN bad
                     ELSE FlagsFrom(re, i + 1, fl, -1, FALSE)
               [] re[i] \in {":", ")"} ->
                     IF sign < 0 /\ ~sawFlag THEN bad
                     ELSE [ok |-> TRUE, group |-> re[i] = ":", flags |-> fl,
                           next |-> i + 1]
               [] OTHER -> bad

\* parsePerlFlags: the (?P<name>, (?flags) or (?flags: at re[i]
ParsePerlFlags(re, i, fl) ==
    LET bad == [ok |-> FALSE, group |-> FALSE, flags |-> fl, next |-> 0]
        named(end) ==
           IF /\ end > i + 4
              /\ \A h \in (i + 4)..(end - 1) : IsAlnum(re[h]) \/ re[h] = "_"
           THEN [ok |-> TRUE, group |-> TRUE, flags |-> fl, next |-> end + 1]
           ELSE bad
    IN  IF Len(re) - i + 1 > 4 /\ re[i + 2] = "P" /\ re[i + 3] = "<"
        THEN IF \E e \in (i + 4)..Len(re) : re[e] = ">"
             THEN named(CHOOSE e \in (i + 4)..Len(re) :
                           /\ re[e] = ">"
                           /\ \A h \in (i + 4)..(e - 1) : re[h] # ">")
             ELSE bad
        ELSE FlagsFrom(re, i + 2, fl, 1, FALSE)

\* every character but the newline, or every character
AnyChar(fl) ==
    CharClass({ClassItem(IF fl.s THEN {<<0, MaxRune>>}
                         ELSE {<<0, 9>>, <<11, MaxRune>>}, FALSE)},
              FALSE, FALSE)

RECURSIVE RepeatIsValid(_, _)
\* repeatIsValid: the counted repetitions in node, one within the other,
\* make no more than n copies of the innermost thing
RepeatIsValid(node, n) ==
    LET within(m) ==
           IF node.max = 0 THEN TRUE
           ELSE IF m > n THEN FALSE
           ELSE RepeatIsValid(node.sub, IF m > 0 THEN n \div m ELSE n)
    IN  CASE node.k = "rep" /\ node.op = "repeat" ->
                within(IF node.max < 0 THEN node.min ELSE node.max)
          [] node.k = "rep" /\ node.op # "repeat" ->
                RepeatIsValid(node.sub, n)
          [] node.k \in {"cat", "alt"} ->
                \A j \in DOMAIN node.subs : RepeatIsValid(node.subs[j], n)
          [] OTHER -> TRUE

RECURSIVE ParseSeq(_, _, _, _, _, _, _)
RECURSIVE Repeat(_, _, _, _, _, _, _, _, _, _)

\* the repetition min..max of the last node of cur, its operator ending
\* before re[after]; a "?" there makes it non-greedy.  A counted
\* repetition that makes more than 1000 copies of what it holds is an error
Repeat(re, after, fl, cur, alts, lastRep, depth, repOp, min, max) ==
    LET checked(node) ==
           IF repOp = "repeat" /\ (min >= 2 \/ max >= 2)
                 /\ ~RepeatIsValid(node, 1000)
           THEN ParseError
           ELSE ParseSeq(re,
                         IF after <= Len(re) /\ re[after] = "?"
                         THEN after + 1
                         ELSE after,
                         fl, [cur EXCEPT ![Len(cur)] = node], alts, TRUE,
                         depth)
    IN  IF lastRep \/ cur = <<>> THEN ParseError
        ELSE checked(Rep(cur[Len(cur)], repOp, min, max))

\* the parser from re[i] on.  fl: the flags; cur: the nodes of the branch
\* being read; alts: the branches read before it; lastRep: the last thing
\* read was a repetition operator; depth: the open groups.  The result of
\* a group ends after its closing parenthesis.
ParseSeq(re, i, fl, cur, alts, lastRep, depth) ==
    LET push(node, next) ==
           ParseSeq(re, next, fl, Append(cur, node), alts, FALSE, depth)
        pushed(sub) == IF sub.ok THEN push(sub.node, sub.next) ELSE ParseError
        pushedClass(u) ==
           IF u.ok THEN push(CharClass({u.item}, FALSE, fl.i), u.next)
           ELSE ParseError
        pushedChar(esc) ==
           IF esc.ok THEN push(Lit(esc.c, fl.i), esc.next) ELSE ParseError
        group(pf) ==
           IF ~pf.ok THEN ParseError
           ELSE IF pf.group
           THEN pushed(ParseSeq(re, pf.next, pf.flags, <<>>, <<>>, FALSE,
                                depth + 1))
           ELSE ParseSeq(re, pf.next, pf.flags, cur, alts, FALSE, depth)
        counted(r) ==
           IF ~r.ok THEN push(Lit(Code("{"), fl.i), i + 1)
           ELSE IF \/ r.min > 1000
                   \/ r.max > 1000
                   \/ r.max >= 0 /\ r.min > r.max
           THEN ParseError
           ELSE Repeat(re, r.next, fl, cur, alts, lastRep, depth, "repeat",
                       r.min, r.max)
        quoted(end) ==
           ParseSeq(re, IF end = 0 THEN Len(re) + 1 ELSE end + 2, fl,
                    cur \o
                    [h \in 1..((IF end = 0 THEN Len(re) ELSE end - 1) - i - 1)
                       |-> Lit(Code(re[i + 1 + h]), fl.i)],
                    alts, FALSE, depth)
        escape(e) ==
           CASE e = "A" -> push(Assertion("bot"), i + 2)
             [] e = "z" -> push(Assertion("eot"), i + 2)
             [] e = "b" -> push(Assertion("wb"), i + 2)
             [] e = "B" -> push(Assertion("nwb"), i + 2)
             [] e = "C" -> ParseError
             [] e \in {"p", "P"} -> pushedClass(ParseUnicodeClass(re, i))
             [] e = "Q" -> quoted(IndexOfPair(re, i + 2, "\\", "E"))
             [] e \in {"d", "s", "w", "D", "S", "W"} ->
                   push(CharClass({PerlClass(e)}, FALSE, fl.i), i + 2)
             [] OTHER -> pushedChar(ParseEscape(re, i))
        at(c) ==
           CASE c = "|" ->
                   ParseSeq(re, i + 1, fl, <<>>, Append(alts, Cat(cur)),
                            FALSE, depth)
             [] c = ")" ->
                   IF depth = 0 THEN ParseError
                   ELSE Parsed(Alt(Append(alts, Cat(cur))), i + 1)
             [] c = "(" ->
                   IF i < Len(re) /\ re[i + 1] = "?"
                   THEN group(ParsePerlFlags(re, i, fl))
                   ELSE pushed(ParseSeq(re, i + 1, fl, <<>>, <<>>, FALSE,
                                        depth + 1))
             [] c = "*" ->
                   Repeat(re, i + 1, fl, cur, alts, lastRep, depth, "star", 0,
                          -1)
             [] c = "+" ->
                   Repeat(re, i + 1, fl, cur, alts, lastRep, depth, "plus", 1,
                          -1)
             [] c = "?" ->
                   Repeat(re, i + 1, fl, cur, alts, lastRep, depth, "quest", 0,
                          1)
             [] c = "{" -> counted(ParseRepeat(re, i))
             [] c = "[" -> pushed(ParseClass(re, i, fl))
             [] c = "." -> push(AnyChar(fl), i + 1)
             [] c = "^" ->
                   push(Assertion(IF fl.m THEN "bol" ELSE "bot"), i + 1)
             [] c = "$" ->
                   push(Assertion(IF fl.m THEN "eol" ELSE "eot"), i + 1)
             [] c = "\\" ->
                   IF i = Len(re) THEN ParseError ELSE escape(re[i + 1])
             [] OTHER -> push(Lit(Code(c), fl.i), i + 1)
    IN  IF i > Len(re)
        THEN IF depth > 0 THEN ParseError
             ELSE Parsed(Alt(Append(alts, Cat(cur))), i)
        ELSE at(re[i])

\* syntax.Parse(re, syntax.Perl)
Parse(re) == ParseSeq(re, 1, NoFlags, <<>>, <<>>, FALSE, 0)

\* regexp.Compile(re): ok is FALSE for an error, node is the Regexp
Compile(re) == Parse(re)

\* regexp.Compile(re) returns no error
Compiles(re) == Compile(re).ok

\* the code c is in the class
ClassHolds(class, c) ==
    LET within(item, x) == \E r \in item.ranges : x >= r[1] /\ x <= r[2]
        holds(item) ==
           (\/ within(item, c)
            \/ class.fold /\ \E x \in Orbit(c) : within(item, x))
              # item.neg
    IN  (\E item \in class.items : holds(item)) # class.neg

\* the k-th character of text is a word character
IsWordAt(text, k) ==
    /\ k >= 1
    /\ k <= Len(text)
    /\ \E r \in WordRanges : text[k] >= r[1] /\ text[k] <= r[2]

RECURSIVE Ends(_, _, _)
RECURSIVE EndsCat(_, _, _, _)
RECURSIVE RepEnds(_, _, _, _, _)
RECURSIVE StarEnds(_, _, _)

\* the positions of text (codes) where a match of node that starts at a
\* position of S can end; the position n is before the n-th character
Ends(node, text, S) ==
    IF S = {} THEN {}
    ELSE
      CASE node.k = "lit" ->
              {s + 1 :
                 s \in {x \in S :
                          /\ x <= Len(text)
                          /\ \/ text[x] = node.c
                             \/ node.fold /\ node.c \in Orbit(text[x])}}
        [] node.k = "class" ->
              {s + 1 :
                 s \in {x \in S :
                          x <= Len(text) /\ ClassHolds(node, text[x])}}
        [] node.k = "bot" -> S \cap {1}
        [] node.k = "eot" -> S \cap {Len(text) + 1}
        [] node.k = "bol" -> {s \in S : s = 1 \/ text[s - 1] = 10}
        [] node.k = "eol" ->
              {s \in S : s = Len(text) + 1 \/ text[s] = 10}
        [] node.k = "wb" ->
              {s \in S : IsWordAt(text, s - 1) # IsWordAt(text, s)}
        [] node.k = "nwb" ->
              {s \in S : IsWordAt(text, s - 1) = IsWordAt(text, s)}
        [] node.k = "cat" -> EndsCat(node.subs, 1, text, S)
        [] node.k = "alt" ->
              UNION {Ends(node.subs[n], text, S) : n \in DOMAIN node.subs}
        [] node.k = "rep" -> RepEnds(node.sub, node.min, node.max, text, S)

EndsCat(subs, n, text, S) ==
    IF n > Len(subs) THEN S
    ELSE EndsCat(subs, n + 1, text, Ends(subs[n], text, S))

\* another turn from a set of positions that a turn leaves as it is gives
\* that set again, however many turns follow
RepEnds(sub, min, max, text, S) ==
    LET must(next) ==
           IF next = S THEN S
           ELSE RepEnds(sub, min - 1, IF max < 0 THEN max ELSE max - 1,
                        text, next)
        may(next) ==
           IF next = S THEN S
           ELSE S \cup RepEnds(sub, 0, max - 1, text, next)
    IN  IF S = {} THEN {}
        ELSE IF min > 0 THEN must(Ends(sub, text, S))
        ELSE IF max = 0 THEN S
        ELSE IF max < 0 THEN StarEnds(sub, text, S)
        ELSE may(Ends(sub, text, S))

StarEnds(sub, text, S) ==
    LET grown(more) == IF more = S THEN S ELSE StarEnds(sub, text, more)
    IN  grown(S \cup Ends(sub, text, S))

\* regexp.MatchString(text) of a compiled pattern: it matches somewhere in
\* text
MatchString(regexp, text) ==
    Ends(regexp.node, Codes(text), 1..(Len(text) + 1)) # {}

----------------------------------------------------------------------------
(* Alias resolver.                                                         *)

\* a rule of an alias: a variant pattern, a task pattern and tags
ProjectAlias(variant, task, tags) ==
    [Variant |-> variant, Task |-> task, Tags |-> tags]

\* util.StringSliceIntersection
StringSliceIntersection(a, b) ==
    SelectSeq(a, LAMBDA x : StringSliceContains(b, x))

\* the test of a task against a rule with the two ways both required
AliasTaskMatchesBoth(v, taskRegex, task) ==
    /\ v.Task # "" /\ MatchString(taskRegex, Chars(task.Name))
    /\ Len(v.Tags) > 0 /\ Len(StringSliceIntersection(task.Tags, v.Tags)) > 0

\* the test of a task against a rule: by a task pattern that is not empty,
\* or by tags
AliasTaskMatches(v, taskRegex, task) ==
    \/ v.Task # "" /\ MatchString(taskRegex, Chars(task.Name))
    \/ Len(v.Tags) > 0 /\ Len(StringSliceIntersection(task.Tags, v.Tags)) > 0

\* the patchability test of a task with nothing held back
AliasPatchableAny(task) == TRUE

\* the patchability test of a task: only Patchable = false holds it back
AliasPatchable(task) == ~(task.Patchable # "nil" /\ task.Patchable = "false")

\* the exec pairs of rule v on a matching variant.  FindTaskForVariant is
\* asked about project tasks only, for which it cannot fault.
AliasVariantPairs(p, v, taskRegex, variant) ==
    Concat([k \in DOMAIN p.Tasks |->
              LET task == p.Tasks[k]
              IN  IF /\ AliasPatchable(task)
                     /\ AliasTaskMatches(v, taskRegex, task)
                     /\ FindTaskForVariant(p, task.Name, variant.Name).bvt
                           # <<>>
                  THEN <<TVPair(variant.Name, task.Name)>>
                  ELSE <<>>])

\* the display pairs on a matching variant without the test for an empty
\* task pattern
AliasVariantDisplayPairsAny(v, taskRegex, variant) ==
    Concat([k \in DOMAIN variant.DisplayTasks |->
              IF MatchString(taskRegex, Chars(variant.DisplayTasks[k].Name))
              THEN <<TVPair(variant.Name, variant.DisplayTasks[k].Name)>>
              ELSE <<>>])

\* the display pairs of rule v on a matching variant: none for an empty
\* task pattern
AliasVariantDisplayPairs(v, taskRegex, variant) ==
    IF v.Task = "" THEN <<>>
    ELSE Concat([k \in DOMAIN variant.DisplayTasks |->
                   IF MatchString(taskRegex,
                                  Chars(variant.DisplayTasks[k].Name))
                   THEN <<TVPair(variant.Name,
                                 variant.DisplayTasks[k].Name)>>
                   ELSE <<>>])

\* the loop of one rule over p.BuildVariants
AliasRulePairs(p, v, variantRegex, taskRegex) ==
    LET pairsOn(matching) ==
           [pairs |->
               Concat([i \in DOMAIN matching |->
                          AliasVariantPairs(p, v, taskRegex, matching[i])]),
            displayTaskPairs |->
               Concat([i \in DOMAIN matching |->
                          AliasVariantDisplayPairs(v, taskRegex,
                                                   matching[i])])]
    IN  pairsOn(SelectSeq(p.BuildVariants,
                   LAMBDA b : MatchString(variantRegex, Chars(b.Name))))

NoAliasOut == [pairs |-> <<>>, displayTaskPairs |-> <<>>, err |-> <<>>]

\* return nil, nil, err
AliasError(err) == [pairs |-> <<>>, displayTaskPairs |-> <<>>, err |-> err]

RECURSIVE AliasRulesFromPartial(_, _, _, _)
\* the loop over the rules with a failed compilation keeping what the
\* earlier rules gave
AliasRulesFromPartial(p, rules, i, acc) ==
    LET with(r) ==
           AliasRulesFromPartial(p, rules, i + 1,
              [acc EXCEPT !.pairs = @ \o r.pairs,
                          !.displayTaskPairs = @ \o r.displayTaskPairs])
        rule(v, variantRegex, taskRegex) ==
           IF ~variantRegex.ok
           THEN [acc EXCEPT !.err = <<"Error compiling regex", v.Variant>>]
           ELSE IF ~taskRegex.ok
           THEN [acc EXCEPT !.err = <<"Error compiling regex", v.Task>>]
           ELSE with(AliasRulePairs(p, v, variantRegex, taskRegex))
    IN  IF i > Len(rules) THEN acc
        ELSE rule(rules[i], Compile(Chars(rules[i].Variant)),
                  Compile(Chars(rules[i].Task)))

RECURSIVE AliasRulesFrom(_, _, _, _)
\* the loop over the rules from rule i on: a pattern that does not compile
\* ends it with the error and nothing else
AliasRulesFrom(p, rules, i, acc) ==
    LET with(r) ==
           AliasRulesFrom(p, rules, i + 1,
              [acc EXCEPT !.pairs = @ \o r.pairs,
                          !.displayTaskPairs = @ \o r.displayTaskPairs])
        rule(v, variantRegex, taskRegex) ==
           IF ~variantRegex.ok
           THEN AliasError(<<"Error compiling regex", v.Variant>>)
           ELSE IF ~taskRegex.ok
           THEN AliasError(<<"Error compiling regex", v.Task>>)
           ELSE with(AliasRulePairs(p, v, variantRegex, taskRegex))
    IN  IF i > Len(rules) THEN acc
        ELSE rule(rules[i], Compile(Chars(rules[i].Variant)),
                  Compile(Chars(rules[i].Task)))

\* what FindAliasInProject gave: an error, or the rules of the alias
NoLookup == [err |-> FALSE, vars |-> <<>>]

\* BuildProjectTVPairsWithAlias, given the outcome of FindAliasInProject
BuildProjectTVPairsWithAlias(p, lookup) ==
    IF lookup.err THEN AliasError(<<"FindAliasInProject">>)
    ELSE AliasRulesFrom(p, lookup.vars, 1, NoAliasOut)

----------------------------------------------------------------------------
(* The projects, versions and requests of the model.                       *)

\* the sub-sequences of s (order kept) of length lo..hi
SubLists(s, lo, hi) ==
    {SelectSeq(s, LAMBDA x : x \in keep) :
        keep \in {k \in SUBSET Range(s) :
                     Cardinality(k) >= lo /\ Cardinality(k) <= hi}}

\* the task catalog: "c" with any Patchable, "b_c" defined or not
Catalogs ==
    {<<ProjectTask("c", pc, <<>>)>> \o
       (IF hasB THEN <<ProjectTask("b_c", "nil", <<>>)>> ELSE <<>>) :
     pc \in PtrBool, hasB \in BOOLEAN}

Groups == <<TaskGroup("g", <<"c", "b_c">>)>>

UnitListsRich ==
    {<<BuildVariantTaskUnit("c", o)>> : o \in PtrBool} \cup
    {<<BuildVariantTaskUnit("b_c", "nil")>>,
     <<BuildVariantTaskUnit("g", "nil")>>,
     <<BuildVariantTaskUnit("c", "nil"), BuildVariantTaskUnit("g", "nil")>>,
     <<BuildVariantTaskUnit("c", "nil"), BuildVariantTaskUnit("b_c", "nil")>>}

DisplayListsRich ==
    {<<>>,
     <<DisplayTask("d", <<"c", "b_c">>)>>,
     <<DisplayTask("e", <<"c">>), DisplayTask("d", <<"c", "b_c">>)>>,
     <<DisplayTask("d", <<"c", "e">>), DisplayTask("e", <<"b_c">>)>>}

UnitListsLean ==
    {<<BuildVariantTaskUnit("c", "nil")>>,
     <<BuildVariantTaskUnit("b_c", "nil")>>}

DisplayListsLean(member) == {<<>>, <<DisplayTask("d", <<member>>)>>}

\* projects of one variant "a"
OneVariantProjects ==
    {[Identifier |-> "p", Tasks |-> cat, TaskGroups |-> Groups,
      BuildVariants |-> <<BuildVariant("a", "x", dis, units, dts)>>] :
     cat \in Catalogs, dis \in BOOLEAN, units \in UnitListsRich,
     dts \in DisplayListsRich}

\* projects of two variants "a" and "a_b", in or against display-name order
TwoVariantProjects ==
    {[Identifier |-> "p", Tasks |-> cat, TaskGroups |-> Groups,
      BuildVariants |->
         <<BuildVariant("a", names[1], disA, unitsA, dtsA),
           BuildVariant("a_b", names[2], disB, unitsB, dtsB)>>] :
     cat \in Catalogs, names \in {<<"x", "y">>, <<"y", "x">>},
     disA \in BOOLEAN, disB \in BOOLEAN,
     unitsA \in UnitListsLean, unitsB \in UnitListsLean,
     dtsA \in DisplayListsLean("c"), dtsB \in DisplayListsLean("b_c")}

\* projects whose display tasks form a chain over two variants: e lists the
\* task c on one variant, d lists e on the other, in both variant orders
ChainProjects ==
    {[Identifier |-> "p",
      Tasks |-> <<ProjectTask("c", "nil", <<>>)>>, TaskGroups |-> Groups,
      BuildVariants |->
         [i \in 1..2 |->
            IF i = first
            THEN BuildVariant("a", names[1], FALSE,
                              <<BuildVariantTaskUnit("c", "nil")>>,
                              <<DisplayTask("e", <<"c">>)>>)
            ELSE BuildVariant("a_b", names[2], FALSE,
                              <<BuildVariantTaskUnit("c", "nil")>>,
                              <<DisplayTask("d", <<"e">>)>>)]] :
     first \in 1..2, names \in {<<"x", "y">>, <<"y", "x">>}}

\* projects with a unit whose name is the prefixed name of a display task
PrefixProjects ==
    {[Identifier |-> "p", Tasks |-> cat, TaskGroups |-> Groups,
      BuildVariants |->
         <<BuildVariant("a", "x", FALSE,
                        <<BuildVariantTaskUnit("c", "nil"),
                          BuildVariantTaskUnit("display_d", "nil")>>,
                        <<DisplayTask("d", <<"c">>)>>)>>] :
     cat \in {<<ProjectTask("c", "nil", <<>>)>>,
              <<ProjectTask("c", "nil", <<>>),
                ProjectTask("display_d", "nil", <<>>)>>}}

\* c depends on b_c of its own variant; b_c depends, optionally in a patch,
\* on c of variant a_b; b_c is on variant a or not
DependencyProjects ==
    {[Identifier |-> "p",
      Tasks |->
         <<[ProjectTask("c", "nil", <<>>) EXCEPT
               !.DependsOn = <<TaskUnitDependency("b_c", "")>>],
           [ProjectTask("b_c", "nil", <<>>) EXCEPT
               !.DependsOn = <<[TaskUnitDependency("c", "a_b") EXCEPT
                                   !.PatchOptional = TRUE]>>]>>,
      TaskGroups |-> Groups,
      BuildVariants |->
         <<BuildVariant("a", "x", FALSE, unitsA, <<>>),
           BuildVariant("a_b", "y", FALSE,
                        <<BuildVariantTaskUnit("c", "nil")>>, <<>>)>>] :
     unitsA \in {<<BuildVariantTaskUnit("c", "nil")>>,
                 <<BuildVariantTaskUnit("c", "nil"),
                   BuildVariantTaskUnit("b_c", "nil")>>}}

Projects ==
    OneVariantProjects \cup TwoVariantProjects \cup ChainProjects \cup
    PrefixProjects \cup DependencyProjects

Versions ==
    [Revision : {"r"}, Id : {"y"},
     Requester : {"patch_request", "gitter_request"},
     CreateTime : 0..MaxCreateTime]

NoVersion == [Revision |-> "", Id |-> "", Requester |-> "", CreateTime |-> 0]

\* requested variant lists: the wildcard, or names of which "a_b" is
\* unknown to the projects of one variant
VariantRequests == {<<"all">>} \cup SubLists(<<"a", "a_b">>, 1, MaxRequest)

\* requested task lists: the wildcard, or task and display-task names
TaskRequests ==
    {<<"all">>} \cup SubLists(<<"c", "b_c", "d", "e">>, 1, MaxRequest)

\* requested pairs of a patch table: tasks, a task group and a display task
\* on a variant, a task no project has and a variant no project has
PairRequests ==
    [ExecTasks :
        SubLists(<<TVPair("a", "c"), TVPair("a", "b_c"), TVPair("a", "g"),
                   TVPair("a", "zz"), TVPair("a_b", "c"),
                   TVPair("zz", "c")>>, 1, MaxRequest),
     DisplayTasks : {<<>>, <<TVPair("a", "d")>>}]

\* what FindAliasInProject gives for the alias of a patch: an error, or
\* one rule
PatchAliasLookups ==
    {[err |-> TRUE, vars |-> <<>>]} \cup
    {[err |-> FALSE, vars |-> <<rule>>] :
        rule \in {ProjectAlias("a_b", "b_c", <<>>),
                  ProjectAlias("^a$", "d", <<>>),
                  ProjectAlias("(", "c", <<>>)}}

----------------------------------------------------------------------------
(* The state machine: one call of the core on a project.                   *)

\* no call on the project has been made
NoCall ==
    /\ op = "none"
    /\ argVariants = <<>>
    /\ argTasks = <<>>
    /\ argPairs = EmptyPairs
    /\ argVersion = NoVersion
    /\ fault = FALSE
    /\ alias = ""
    /\ expanded = [BuildVariants |-> <<>>, Tasks |-> <<>>]
    /\ selected = [BuildVariants |-> <<>>, Tasks |-> <<>>]
    /\ patchDoc = Patch(<<>>, <<>>)
    /\ crossPairs = <<>>
    /\ tvp = EmptyPairs
    /\ found = <<>>
    /\ idConfig = EmptyConfig
    /\ allBVTs = <<>>

\* no unit is being populated
NoMerge ==
    /\ argUnit = BuildVariantTaskUnit("", "nil")
    /\ argProjectTask = ProjectTask("", "nil", <<>>)
    /\ unit = BuildVariantTaskUnit("", "nil")
    /\ populates = 0

\* no alias has been resolved
NoAlias ==
    /\ argAlias = NoLookup
    /\ aliasOut = NoAliasOut

\* GetTaskGroup has not been called
NoGroup ==
    /\ argTaskGroup = ""
    /\ argTc = <<>>
    /\ tgOut = [done |-> FALSE, tg |-> <<>>, err |-> <<>>, fault |-> FALSE]

\* there is no event meta-job
NoJob ==
    /\ env = <<>>
    /\ step = "none"
    /\ job = <<>>
    /\ cursor = 0
    /\ notifications = <<>>
    /\ catcher = <<>>
    /\ calls = <<>>

Init ==
    /\ proj \in Projects
    /\ NoCall
    /\ NoMerge
    /\ NoAlias
    /\ NoGroup
    /\ NoJob

\* A behaviour is one call of the core on a project.  NewTaskIdTable is the
\* only call that writes the project (it sorts the variants by display
\* name), and Projects holds every project in both variant orders, so a
\* call made after it is a call on another initial project.

\* p.FindTaskForVariant(task, variant)
CallFindTaskForVariant(task, variant) ==
    LET r == FindTaskForVariant(proj, task, variant)
    IN  /\ op = "none"
        /\ op' = "FindTaskForVariant"
        /\ argTasks' = <<task>>
        /\ argVariants' = <<variant>>
        /\ fault' = r.fault
        /\ found' = r.bvt
        /\ UNCHANGED <<proj, argPairs, argVersion, alias, expanded, selected,
                       patchDoc, crossPairs, tvp, idConfig, allBVTs,
                       mergeVars, aliasVars, groupVars, jobVars>>

RECURSIVE AppendMissing(_, _)
\* list with each name of names appended that it does not hold yet
AppendMissing(list, names) ==
    IF names = <<>> THEN list
    ELSE AppendMissing(IF StringSliceContains(list, Head(names)) THEN list
                       ELSE Append(list, Head(names)),
                       Tail(names))

\* the alias branch of BuildProjectTVPairs: st = [pairs, BuildVariants,
\* Tasks]; an error of the alias resolution leaves st as it is
IncludeAlias(st, out) ==
    IF out.err # <<>> THEN st
    ELSE [pairs |-> st.pairs \o out.pairs,
          BuildVariants |->
             AppendMissing(st.BuildVariants,
                [i \in DOMAIN out.displayTaskPairs |->
                    out.displayTaskPairs[i].Variant]),
          Tasks |->
             AppendMissing(st.Tasks,
                [i \in DOMAIN out.displayTaskPairs |->
                    out.displayTaskPairs[i].TaskName])]

\* the pairs the pair depends on: one for each depends_on entry, not
\* optional in a patch, of the task as FindTaskForVariant resolves it
DependenciesOf(p, pair) ==
    LET r == FindTaskForVariant(p, pair.TaskName, pair.Variant)
    IN  IF r.fault \/ r.bvt = <<>> THEN {}
        ELSE {TVPair(IF d.Variant = "" THEN pair.Variant ELSE d.Variant,
                     d.Name) :
                 d \in {x \in Range(r.bvt[1].DependsOn) : ~x.PatchOptional}}

RECURSIVE DependencyClosure(_, _)
DependencyClosure(p, pairs) ==
    LET more == pairs \cup UNION {DependenciesOf(p, pr) : pr \in pairs}
    IN  IF more = pairs THEN pairs ELSE DependencyClosure(p, more)

\* IncludePatchDependencies(p, tvpairs): the set of the pairs and of the
\* pairs they depend on, each of them a task on its variant
IncludePatchDependencies(p, tvpairs) ==
    {pr \in DependencyClosure(p, Range(tvpairs)) :
        LET r == FindTaskForVariant(p, pr.TaskName, pr.Variant)
        IN  ~r.fault /\ r.bvt # <<>>}

\* tasks.TVPairsToVariantTasks(), execTasks being the set of tasks.ExecTasks
TVPairsToVariantTasks(execTasks, displayTasks) ==
    [v \in {pr.Variant : pr \in execTasks \cup Range(displayTasks)} |->
        [Tasks |-> {pr.TaskName : pr \in {x \in execTasks : x.Variant = v}},
         DisplayTasks |->
            {pr.TaskName :
                pr \in {x \in Range(displayTasks) : x.Variant = v}}]]

\* the lists that hold each element of the set once
Orders(S) == {f \in [1..Cardinality(S) -> S] : Range(f) = S}

\* the documents patchDoc.SyncVariantsTasks(vts) can leave: the variants of
\* vts and the tasks of its variants, each list in the order a Go map gave
SyncVariantsTasks(vts) ==
    {[BuildVariants |-> bvs, Tasks |-> ts, VariantsTasks |-> vts] :
        bvs \in Orders(DOMAIN vts),
        ts \in Orders(UNION {vts[v].Tasks : v \in DOMAIN vts})}

\* p.BuildProjectTVPairs(patchDoc, name), patchDoc having the requested
\* variants and tasks and lookup being what FindAliasInProject returns for
\* the name.  A panic of FindTaskForVariant in the cross product leaves
\* patchDoc with the wildcard expansion.
BuildProjectTVPairs(variants, tasks, name, lookup) ==
    LET \* lines 1058-1063, st being what the alias branch left
        finish(bvs, ts, cp, out, st, extracted) ==
           /\ op = "none"
           /\ op' = "BuildProjectTVPairs"
           /\ argVariants' = variants
           /\ argTasks' = tasks
           /\ alias' = name
           /\ expanded' = [BuildVariants |-> bvs, Tasks |-> ts]
           /\ fault' = cp.fault
           /\ crossPairs' = cp.pairs
           /\ IF cp.fault
              THEN /\ tvp' = EmptyPairs
                   /\ patchDoc' = Patch(bvs, ts)
                   /\ UNCHANGED <<selected, aliasVars>>
              ELSE /\ tvp' = extracted
                   /\ selected' = [BuildVariants |-> st.BuildVariants,
                                   Tasks |-> st.Tasks]
                   /\ argAlias' = IF name = "" THEN NoLookup ELSE lookup
                   /\ aliasOut' = out
                   /\ patchDoc' \in SyncVariantsTasks(
                         TVPairsToVariantTasks(
                            IncludePatchDependencies(proj,
                                                     extracted.ExecTasks),
                            extracted.DisplayTasks))
           /\ UNCHANGED <<proj, argPairs, argVersion, found, idConfig,
                          allBVTs, mergeVars, groupVars, jobVars>>
        extract(bvs, ts, cp, out, st) ==
           finish(bvs, ts, cp, out, st,
                  extractDisplayTasks(st.pairs, st.Tasks, st.BuildVariants,
                                      proj))
        \* lines 1041-1056
        include(bvs, ts, cp, out) ==
           extract(bvs, ts, cp, out,
                   IncludeAlias([pairs |-> cp.pairs, BuildVariants |-> bvs,
                                 Tasks |-> ts], out))
        \* lines 1032-1039
        cross(bvs, ts) ==
           include(bvs, ts, CrossProduct(proj, bvs, ts),
                   IF name = "" THEN NoAliasOut
                   ELSE BuildProjectTVPairsWithAlias(proj, lookup))
    IN  cross(ExpandVariants(proj, variants), ExpandTasks(proj, tasks))

\* extractDisplayTasks(pairs, tasks, variants, p) with no pairs yet
CallExtractDisplayTasks(tasks, variants) ==
    /\ op = "none"
    /\ op' = "extractDisplayTasks"
    /\ argVariants' = variants
    /\ argTasks' = tasks
    /\ tvp' = extractDisplayTasks(<<>>, tasks, variants, proj)
    /\ UNCHANGED <<proj, argPairs, argVersion, fault, alias, expanded,
                   selected, patchDoc, crossPairs, found, idConfig, allBVTs,
                   mergeVars, aliasVars, groupVars, jobVars>>

\* p.FindAllBuildVariantTasks()
CallFindAllBuildVariantTasks ==
    /\ op = "none"
    /\ op' = "FindAllBuildVariantTasks"
    /\ allBVTs' = FindAllBuildVariantTasks(proj)
    /\ UNCHANGED <<proj, argVariants, argTasks, argPairs, argVersion, fault,
                   alias, expanded, selected, patchDoc, crossPairs, tvp,
                   found, idConfig, mergeVars, aliasVars, groupVars, jobVars>>

\* NewTaskIdTable(p, v)
NewTaskIdTable(v) ==
    LET r == NewTaskIdTableOf(proj, v)
    IN  /\ op = "none"
        /\ op' = "NewTaskIdTable"
        /\ argVersion' = v
        /\ proj' = r.proj
        /\ idConfig' = r.config
        /\ UNCHANGED <<argVariants, argTasks, argPairs, fault, alias,
                       expanded, selected, patchDoc, crossPairs, tvp, found,
                       allBVTs, mergeVars, aliasVars, groupVars, jobVars>>

\* NewPatchTaskIdTable(proj, v, tasks)
NewPatchTaskIdTable(v, tasks) ==
    LET r == NewPatchTaskIdTableOf(proj, v, tasks)
    IN  /\ op = "none"
        /\ op' = "NewPatchTaskIdTable"
        /\ argVersion' = v
        /\ argPairs' = tasks
        /\ fault' = r.fault
        /\ idConfig' = r.config
        /\ UNCHANGED <<proj, argVariants, argTasks, alias, expanded,
                       selected, patchDoc, crossPairs, tvp, found, allBVTs,
                       mergeVars, aliasVars, groupVars, jobVars>>

Next ==
    \/ \E t \in {"c", "b_c", "d"}, v \in {"a", "a_b"} :
          CallFindTaskForVariant(t, v)
    \/ \E bvs \in VariantRequests, ts \in TaskRequests :
          BuildProjectTVPairs(bvs, ts, "", NoLookup)
    \/ \E bvs \in {<<"all">>, <<"a">>}, ts \in {<<"c">>, <<"b_c">>},
          lookup \in PatchAliasLookups :
          BuildProjectTVPairs(bvs, ts, "x", lookup)
    \/ \E bvs \in VariantRequests, ts \in TaskRequests :
          CallExtractDisplayTasks(ts, bvs)
    \/ CallFindAllBuildVariantTasks
    \/ \E v \in Versions : NewTaskIdTable(v)
    \/ \E v \in Versions, ts \in PairRequests : NewPatchTaskIdTable(v, ts)

Spec == Init /\ [][Next]_vars

----------------------------------------------------------------------------
(* The override merge on its own: Populate applied to one unit, again and  *)
(* again with the same project task.                                       *)

\* most calls of Populate on one unit
MaxPopulates == 2

NoProject ==
    [Identifier |-> "", Tasks |-> <<>>, TaskGroups |-> <<>>,
     BuildVariants |-> <<>>]


\* units with each of the six merged fields set or left at its zero value
MergeUnits ==
    {[BuildVariantTaskUnit("c", pa) EXCEPT
        !.IsGroup = TRUE, !.GroupName = "g", !.Distros = <<"d">>,
        !.DependsOn = dep, !.Requires = req, !.Priority = pr,
        !.ExecTimeoutSecs = ex, !.Stepback = sb] :
     pa \in PtrBool, sb \in PtrBool, pr \in {0, 1}, ex \in {0, 1},
     dep \in {<<>>, <<TaskUnitDependency("b_c", "a")>>},
     req \in {<<>>, <<TaskUnitRequirement("b_c", "a")>>}}

\* project tasks whose set fields differ from every value a unit sets
MergeTasks ==
    {[ProjectTask("e", pa, <<>>) EXCEPT
        !.DependsOn = dep, !.Requires = req, !.Priority = pr,
        !.ExecTimeoutSecs = ex, !.Stepback = sb] :
     pa \in PtrBool, sb \in PtrBool, pr \in {0, 2}, ex \in {0, 2},
     dep \in {<<>>, <<TaskUnitDependency("d", "a_b")>>},
     req \in {<<>>, <<TaskUnitRequirement("d", "a_b")>>}}

InitMerge ==
    /\ proj = NoProject
    /\ NoCall
    /\ NoAlias
    /\ NoGroup
    /\ NoJob
    /\ argUnit \in MergeUnits
    /\ argProjectTask \in MergeTasks
    /\ unit = argUnit
    /\ populates = 0

\* unit.Populate(argProjectTask)
CallPopulate ==
    /\ populates < MaxPopulates
    /\ unit' = Populate(unit, argProjectTask)
    /\ populates' = populates + 1
    /\ UNCHANGED <<proj, callVars, argUnit, argProjectTask, aliasVars,
                   groupVars, jobVars>>

NextMerge == CallPopulate

SpecMerge == InitMerge /\ [][NextMerge]_vars

----------------------------------------------------------------------------
(* Vocabulary of the properties, stated on the project data alone.         *)

VariantsNamed(p, v) ==
    {p.BuildVariants[i] : i \in {j \in DOMAIN p.BuildVariants :
                                    p.BuildVariants[j].Name = v}}

TasksNamed(p, t) == {p.Tasks[i] : i \in {j \in DOMAIN p.Tasks :
                                            p.Tasks[j].Name = t}}

DefinedTask(p, t) == TasksNamed(p, t) # {}

\* the member names of the task groups called g
GroupMembers(p, g) ==
    UNION {Range(p.TaskGroups[i].Tasks) :
             i \in {j \in DOMAIN p.TaskGroups : p.TaskGroups[j].Name = g}}

\* the units of bv through which task t is on the variant: the unit named t
\* or a unit naming a task group with member t
UnitsFor(p, bv, t) ==
    {bv.Tasks[i] : i \in {j \in DOMAIN bv.Tasks :
                            \/ bv.Tasks[j].Name = t
                            \/ t \in GroupMembers(p, bv.Tasks[j].Name)}}

\* t is in the task list of variant v, directly or through a task group
OnVariant(p, t, v) == \E bv \in VariantsNamed(p, v) : UnitsFor(p, bv, t) # {}

\* t is a defined task that is on variant v
Reachable(p, t, v) == DefinedTask(p, t) /\ OnVariant(p, t, v)

\* t is a name of the project: a task, a task group or a member of one
KnownTask(p, t) ==
    \/ DefinedTask(p, t)
    \/ \E i \in DOMAIN p.TaskGroups :
          t = p.TaskGroups[i].Name \/ t \in Range(p.TaskGroups[i].Tasks)

\* the project task t is marked Patchable = false
TaskNotPatchable(p, t) == \E pt \in TasksNamed(p, t) : pt.Patchable = "false"

\* the Patchable of t on v after the override merge is false for some unit
ResolvedNotPatchable(p, t, v) ==
    \E bv \in VariantsNamed(p, v), pt \in TasksNamed(p, t) :
       \E u \in UnitsFor(p, bv, t) :
          (IF u.Patchable # "nil" THEN u.Patchable ELSE pt.Patchable) = "false"

PairsOf(variants, tasks) ==
    {TVPair(v, t) : v \in Range(variants), t \in Range(tasks)}

Selects(pairs, bv, dt) ==
    /\ TVPair(bv.Name, dt.Name) \in Range(pairs.DisplayTasks)
    /\ \A e \in Range(dt.ExecutionTasks) :
          TVPair(bv.Name, e) \in Range(pairs.ExecTasks)

\* dts[k] is the first display task of dts that lists e
FirstListing(dts, k, e) ==
    /\ e \in Range(dts[k].ExecutionTasks)
    /\ \A j \in 1..(k - 1) : e \notin Range(dts[j].ExecutionTasks)

\* the id text the format prescribes for name on variant under version v
ExpectedId(p, variant, name, v) ==
    LET sep == <<"_">>
        plain == Chars(p.Identifier) \o sep \o Chars(variant) \o sep \o name
                 \o sep \o
                 (IF v.Requester \in {"patch_request", "github_pull_request"}
                  THEN Chars("patch_") \o Chars(v.Revision) \o sep \o
                       Chars(v.Id)
                  ELSE Chars(v.Revision))
                 \o sep \o FormatCreateTime(v.CreateTime)
    IN  [i \in DOMAIN plain |-> IF plain[i] \in {"-", " "} THEN "_"
                                ELSE plain[i]]

----------------------------------------------------------------------------
(* Claims C1 - C10.                                                        *)

\* C1 (as claimed): BuildProjectTVPairs ends without a fault and its
\* cross-product pairs are exactly the pairs (v, t) of the expanded variant
\* and task lists with t a defined task on v.
C1_CrossProductIsReachablePairs ==
    op = "BuildProjectTVPairs" =>
       /\ ~fault
       /\ Range(crossPairs) =
             {pr \in PairsOf(expanded.BuildVariants, expanded.Tasks) :
                 Reachable(proj, pr.TaskName, pr.Variant)}

\* C2 (as claimed): every exec pair after selection and display-task
\* expansion names a task on its variant that is not Patchable = false.
C2_ExecTasksReachableAndPatchable ==
    (op \in {"BuildProjectTVPairs", "extractDisplayTasks"} /\ ~fault) =>
       \A i \in DOMAIN tvp.ExecTasks :
          /\ OnVariant(proj, tvp.ExecTasks[i].TaskName,
                       tvp.ExecTasks[i].Variant)
          /\ ~TaskNotPatchable(proj, tvp.ExecTasks[i].TaskName)

\* C3 (as claimed): for a selected variant V with display task D, requesting
\* [e1], an execution task of D, or requesting [D] returns the display pair
\* (V, D) and the exec pair of every execution task of D.
C3_DisplayBidirectional ==
    op = "extractDisplayTasks" =>
       \A i \in DOMAIN proj.BuildVariants :
          LET bv == proj.BuildVariants[i]
          IN  bv.Name \in Range(argVariants) =>
                \A k \in DOMAIN bv.DisplayTasks :
                   LET dt == bv.DisplayTasks[k]
                   IN  (\/ argTasks = <<dt.Name>>
                        \/ \E e \in Range(dt.ExecutionTasks) :
                              argTasks = <<e>>)
                       => Selects(tvp, bv, dt)

\* C3 (amended): the same, where for the request [e1] D is the first display
\* task of V that lists e1.
C3_DisplayBidirectionalFirst ==
    op = "extractDisplayTasks" =>
       \A i \in DOMAIN proj.BuildVariants :
          LET bv == proj.BuildVariants[i]
          IN  bv.Name \in Range(argVariants) =>
                \A k \in DOMAIN bv.DisplayTasks :
                   LET dt == bv.DisplayTasks[k]
                   IN  (\/ argTasks = <<dt.Name>>
                        \/ \E e \in Range(dt.ExecutionTasks) :
                              /\ argTasks = <<e>>
                              /\ FirstListing(bv.DisplayTasks, k, e))
                       => Selects(tvp, bv, dt)

\* C3 witness: [c] was requested on a variant whose display task d lists c
\* and b_c, and d with both members came back.
C3_Witness ==
    /\ op = "extractDisplayTasks"
    /\ argTasks = <<"c">>
    /\ TVPair("a", "d") \in Range(tvp.DisplayTasks)
    /\ TVPair("a", "c") \in Range(tvp.ExecTasks)
    /\ TVPair("a", "b_c") \in Range(tvp.ExecTasks)

\* C4 (as claimed): two distinct pairs of the execution-task table of
\* NewTaskIdTable never have the same id.
C4_FullTableIdsDistinct ==
    op = "NewTaskIdTable" =>
       \A k1, k2 \in DOMAIN idConfig.ExecutionTasks :
          k1 # k2 => idConfig.ExecutionTasks[k1] # idConfig.ExecutionTasks[k2]

\* C5: a second NewTaskIdTable on the project as the first one left it
\* returns the same tables, and every id of a full or a patch table is the
\* prescribed text of the project identifier, the variant and name of its
\* key (a display task's name prefixed), the revision component and the
\* formatted creation time.
C5_IdsDeterministic ==
    /\ op = "NewTaskIdTable" =>
          idConfig = NewTaskIdTableOf(proj, argVersion).config
    /\ op \in {"NewTaskIdTable", "NewPatchTaskIdTable"} =>
          \A tt \in {idConfig.ExecutionTasks, idConfig.DisplayTasks} :
             \A k \in DOMAIN tt :
                tt[k] \in {ExpectedId(proj, k.Variant, Chars(k.TaskName),
                                      argVersion),
                           ExpectedId(proj, k.Variant,
                                      Chars("display_") \o Chars(k.TaskName),
                                      argVersion)}

\* C5 witness: a full table with an execution id and a display id, built
\* for a patch version on a project whose variants the call reordered.
C5_Witness ==
    /\ op = "NewTaskIdTable"
    /\ IsPatchRequester(argVersion.Requester)
    /\ Len(proj.BuildVariants) = 2
    /\ proj.BuildVariants[1].Name = "a_b"
    /\ DOMAIN idConfig.ExecutionTasks # {}
    /\ DOMAIN idConfig.DisplayTasks # {}

\* C6 (as claimed): every key of the execution-task table of
\* NewPatchTaskIdTable is on its variant in the project and is a pair of the
\* request after task groups are replaced by their members.
C6_PatchTableOnlyRequested ==
    (op = "NewPatchTaskIdTable" /\ ~fault) =>
       \A k \in DOMAIN idConfig.ExecutionTasks :
          /\ OnVariant(proj, k.TaskName, k.Variant)
          /\ \E i \in DOMAIN argPairs.ExecTasks :
                /\ argPairs.ExecTasks[i].Variant = k.Variant
                /\ \/ argPairs.ExecTasks[i].TaskName = k.TaskName
                   \/ k.TaskName \in
                         GroupMembers(proj, argPairs.ExecTasks[i].TaskName)

\* C7 (as claimed): NewPatchTaskIdTable ends without a fault, and a
\* requested pair whose variant or task the project does not have has no
\* entry and an empty GetId.
C7_PatchTableSkipsUnknown ==
    op = "NewPatchTaskIdTable" =>
       /\ ~fault
       /\ \A i \in DOMAIN argPairs.ExecTasks :
             LET pr == argPairs.ExecTasks[i]
             IN  (\/ VariantsNamed(proj, pr.Variant) = {}
                  \/ ~KnownTask(proj, pr.TaskName))
                 => /\ pr \notin DOMAIN idConfig.ExecutionTasks
                    /\ GetId(idConfig.ExecutionTasks, pr.Variant,
                             pr.TaskName) = <<>>

\* C8: when the requested variants are ["all"], the variant list becomes the
\* names of the variants that are not disabled, each once and in project
\* order, and no cross-product pair names a disabled variant.
C8_AllVariantsAreEnabledOnes ==
    (op = "BuildProjectTVPairs" /\ argVariants = <<"all">>) =>
       LET enabled == {i \in DOMAIN proj.BuildVariants :
                          ~proj.BuildVariants[i].Disabled}
           got == expanded.BuildVariants
       IN  /\ Len(got) = Cardinality(enabled)
           /\ Range(got) = {proj.BuildVariants[i].Name : i \in enabled}
           /\ \A m, n \in DOMAIN got :
                 m < n =>
                   \E i, j \in enabled :
                      /\ i < j
                      /\ proj.BuildVariants[i].Name = got[m]
                      /\ proj.BuildVariants[j].Name = got[n]
           /\ \A m \in DOMAIN crossPairs :
                 \A bv \in VariantsNamed(proj, crossPairs[m].Variant) :
                    ~bv.Disabled

\* C8 witness: ["all"] on a project with a disabled and an enabled variant
\* gave pairs.
C8_Witness ==
    /\ op = "BuildProjectTVPairs"
    /\ argVariants = <<"all">>
    /\ \E i, j \in DOMAIN proj.BuildVariants :
          proj.BuildVariants[i].Disabled /\ ~proj.BuildVariants[j].Disabled
    /\ crossPairs # <<>>

\* C9 (as claimed): when the requested tasks are ["all"], (v, t) is a
\* cross-product pair of a requested variant v exactly when t is a defined
\* task on v whose Patchable after the override merge is not false.
C9_AllTasksByResolvedPatchable ==
    (op = "BuildProjectTVPairs" /\ argTasks = <<"all">> /\ ~fault) =>
       \A v \in Range(expanded.BuildVariants) :
          \A t \in {proj.Tasks[i].Name : i \in DOMAIN proj.Tasks} :
             TVPair(v, t) \in Range(crossPairs) <=>
                (Reachable(proj, t, v) /\ ~ResolvedNotPatchable(proj, t, v))

\* C10 (as claimed): FindTaskForVariant never faults, and returns nil for
\* an unknown variant and for a task without a ProjectTask definition.
C10_FindTaskNeverFaults ==
    op = "FindTaskForVariant" =>
       /\ ~fault
       /\ (\/ VariantsNamed(proj, argVariants[1]) = {}
           \/ ~DefinedTask(proj, argTasks[1])) => found = <<>>

----------------------------------------------------------------------------
(* The alias resolver on its own: one resolution of an alias on a project  *)
(* whose tasks carry tags.                                                 *)

\* most rules of an alias
MaxRules == 2

\* "c" with any Patchable, tagged or not, and "b_c" with two tags
AliasCatalogs ==
    {<<ProjectTask("c", pc, tc), ProjectTask("b_c", "nil", <<"t", "u">>)>> :
     pc \in PtrBool, tc \in {<<>>, <<"t">>}}

\* variants "a" and "a_b": the name of the first is a part of the name of
\* the second, as task name "c" is of "b_c"
AliasProjects ==
    {[Identifier |-> "p", Tasks |-> cat, TaskGroups |-> Groups,
      BuildVariants |->
         <<BuildVariant("a", "x", FALSE, unitsA, dtsA),
           BuildVariant("a_b", "y", FALSE, unitsB, dtsB)>>] :
     cat \in AliasCatalogs,
     unitsA \in {<<BuildVariantTaskUnit("c", "nil")>>,
                 <<BuildVariantTaskUnit("c", "false"),
                   BuildVariantTaskUnit("b_c", "nil")>>,
                 <<BuildVariantTaskUnit("g", "nil")>>},
     dtsA \in {<<>>, <<DisplayTask("d", <<"c">>),
                       DisplayTask("e", <<"b_c">>)>>},
     unitsB \in {<<BuildVariantTaskUnit("b_c", "nil")>>,
                 <<BuildVariantTaskUnit("c", "nil")>>},
     dtsB \in {<<>>, <<DisplayTask("d", <<"b_c">>)>>}}

\* rules: patterns with and without anchors, with a group, an alternation,
\* a repetition, a class, a Unicode class and the flag i, an empty variant
\* pattern, tags with and
\* without a task pattern, patterns that do not compile, a variant pattern
\* and a tag that nothing matches
AliasRules ==
    {ProjectAlias("a", "c", <<>>),
     ProjectAlias("^a$", "^c$", <<>>),
     ProjectAlias("a.*", "", <<"t">>),
     ProjectAlias("^a$", "", <<"u">>),
     ProjectAlias("", "d", <<>>),
     ProjectAlias("(?i)(A)", "a|c", <<>>),
     ProjectAlias("*", "c", <<>>),
     ProjectAlias("a", "(", <<"t">>),
     ProjectAlias("[xz]+", "c", <<"t">>),
     ProjectAlias("^a$", "e", <<"t">>),
     ProjectAlias("^a$", "c", <<"zz">>),
     ProjectAlias("^\\pL+$", "[bd]", <<>>),
     ProjectAlias("a", "c**", <<>>)}

\* outcomes of FindAliasInProject: an error, no rule, or 1..MaxRules rules
AliasLookups ==
    {[err |-> TRUE, vars |-> <<>>], [err |-> FALSE, vars |-> <<>>]} \cup
    {[err |-> FALSE, vars |-> rules] :
        rules \in UNION {[1..n -> AliasRules] : n \in 1..MaxRules}}

InitAlias ==
    /\ proj \in AliasProjects
    /\ NoCall
    /\ NoMerge
    /\ NoAlias
    /\ NoGroup
    /\ NoJob

\* p.BuildProjectTVPairsWithAlias(alias), lookup being what
\* FindAliasInProject returns for the alias
CallBuildProjectTVPairsWithAlias(lookup) ==
    /\ op = "none"
    /\ op' = "BuildProjectTVPairsWithAlias"
    /\ argAlias' = lookup
    /\ aliasOut' = BuildProjectTVPairsWithAlias(proj, lookup)
    /\ UNCHANGED <<proj, argVariants, argTasks, argPairs, argVersion, fault,
                   alias, expanded, selected, patchDoc, crossPairs, tvp,
                   found, idConfig, allBVTs, mergeVars, groupVars, jobVars>>

NextAlias == \E lookup \in AliasLookups : CallBuildProjectTVPairsWithAlias(lookup)

SpecAlias == InitAlias /\ [][NextAlias]_vars

----------------------------------------------------------------------------
(* The id tables over versions of several revisions and version ids.       *)

\* versions of two revisions and of three version ids, two of which differ
\* in a dash and an underscore only
RichVersions ==
    [Revision : {"r", "r_x"}, Id : {"y", "x_y", "x-y"},
     Requester : {"patch_request", "gitter_request"},
     CreateTime : 0..MaxCreateTime]

InitVersions ==
    /\ proj \in ChainProjects \cup PrefixProjects
    /\ NoCall
    /\ NoMerge
    /\ NoAlias
    /\ NoGroup
    /\ NoJob

NextVersions ==
    \/ \E v \in RichVersions : NewTaskIdTable(v)
    \/ \E v \in RichVersions, ts \in PairRequests : NewPatchTaskIdTable(v, ts)

SpecVersions == InitVersions /\ [][NextVersions]_vars

----------------------------------------------------------------------------
(* The task group of a running task.                                       *)

\* GetTaskGroup returning (nil, err)
TgError(err) == [done |-> TRUE, tg |-> <<>>, err |-> err, fault |-> FALSE]

\* GetTaskGroup returning (tg, nil)
TgFound(tg) == [done |-> TRUE, tg |-> <<tg>>, err |-> <<>>, fault |-> FALSE]

\* GetTaskGroup ending in a nil dereference
TgPanic == [done |-> TRUE, tg |-> <<>>, err |-> <<>>, fault |-> TRUE]

\* LoadProjectInto(config, identifier, &p): a config that does not parse gives
\* an error, any other config gives the project it describes
LoadProjectInto(config, identifier) ==
    IF config.parses
    THEN [err |-> <<>>, p |-> config.project]
    ELSE [err |-> <<"error loading project">>, p |-> <<>>]

\* GetTaskGroup without the check of tc.Version
GetTaskGroupTrustingVersion(taskGroup, tc) ==
    IF tc = <<>>
    THEN TgError(<<"unable to get task group: TaskConfig is nil">>)
    ELSE IF tc[1].Task = <<>>
    THEN TgError(<<"unable to get task group: task is nil">>)
    ELSE IF tc[1].Task[1].Version = ""
    THEN TgError(<<"task has no version">>)
    ELSE IF tc[1].Version = <<>>
    THEN TgPanic
    ELSE LET load == LoadProjectInto(tc[1].Version[1].Config,
                                     tc[1].Task[1].Project)
         IN  IF load.err # <<>>
             THEN TgError(<<"error retrieving project for task group">>
                          \o load.err)
             ELSE IF taskGroup = ""
             THEN TgFound([Name |-> "", Tasks |-> <<>>,
                           SetupTask |-> load.p.Pre,
                           TeardownTask |-> load.p.Post,
                           Timeout |-> load.p.Timeout])
             ELSE LET tg == FindTaskGroup(load.p, taskGroup)
                  IN  IF tg = <<>>
                      THEN TgError(<<"couldn't find task group",
                                     tc[1].Task[1].TaskGroup>>)
                      ELSE TgFound(tg[1])

GetTaskGroup(taskGroup, tc) ==
    IF tc = <<>>
    THEN TgError(<<"unable to get task group: TaskConfig is nil">>)
    ELSE IF tc[1].Task = <<>>
    THEN TgError(<<"unable to get task group: task is nil">>)
    ELSE IF tc[1].Task[1].Version = ""
    THEN TgError(<<"task has no version">>)
    ELSE IF tc[1].Version = <<>>
    THEN TgError(<<"version is nil">>)
    ELSE LET load == LoadProjectInto(tc[1].Version[1].Config,
                                     tc[1].Task[1].Project)
         IN  IF load.err # <<>>
             THEN TgError(<<"error retrieving project for task group">>
                          \o load.err)
             ELSE IF taskGroup = ""
             THEN TgFound([Name |-> "", Tasks |-> <<>>,
                           SetupTask |-> load.p.Pre,
                           TeardownTask |-> load.p.Post,
                           Timeout |-> load.p.Timeout])
             ELSE LET tg == FindTaskGroup(load.p, taskGroup)
                  IN  IF tg = <<>>
                      THEN TgError(<<"couldn't find task group",
                                     tc[1].Task[1].TaskGroup>>)
                      ELSE TgFound(tg[1])

\* a *YAMLCommandSet: nil or the command set of the name
CommandSets(name) == {<<>>, <<name>>}

\* a task group with its per-task command sets
RunGroup(name, setup, teardown) ==
    [Name |-> name, Tasks |-> <<"c">>, SetupTask |-> setup,
     TeardownTask |-> teardown, Timeout |-> <<>>]

\* the projects a version's config describes: no group, the group g, or two
\* groups named g
LoadedProjects ==
    [Pre : CommandSets("pre"), Post : CommandSets("post"),
     Timeout : CommandSets("timeout"),
     TaskGroups : {<<>>,
                   <<RunGroup("g", <<"setup">>, <<>>)>>,
                   <<RunGroup("g", <<>>, <<"teardown">>),
                     RunGroup("g", <<"setup">>, <<>>)>>}]

\* a config that does not parse, and one config for each loaded project
VersionConfigs ==
    {[parses |-> FALSE, project |-> <<>>]} \cup
    {[parses |-> TRUE, project |-> p] : p \in LoadedProjects}

\* the *TaskConfig values: nil, or a config whose Task and Version are nil
\* or set
TaskConfigs ==
    {<<>>} \cup
    {<<[Task |-> t, Version |-> v]>> :
        t \in {<<>>} \cup
              {<<[Version |-> tv, Project |-> "p", TaskGroup |-> tg]>> :
                  tv \in {"", "y"}, tg \in {"", "g"}},
        v \in {<<>>} \cup {<<[Config |-> c]>> : c \in VersionConfigs}}

GroupNameRequests == {"", "g", "zz"}

InitTaskGroup ==
    /\ proj = NoProject
    /\ NoCall
    /\ NoMerge
    /\ NoAlias
    /\ NoJob
    /\ argTaskGroup \in GroupNameRequests
    /\ argTc \in TaskConfigs
    /\ tgOut = [done |-> FALSE, tg |-> <<>>, err |-> <<>>, fault |-> FALSE]

\* GetTaskGroup(argTaskGroup, argTc)
CallGetTaskGroup ==
    /\ ~tgOut.done
    /\ tgOut' = GetTaskGroup(argTaskGroup, argTc)
    /\ UNCHANGED <<proj, callVars, mergeVars, aliasVars, argTaskGroup, argTc,
                   jobVars>>

NextTaskGroup == CallGetTaskGroup

SpecTaskGroup == InitTaskGroup /\ [][NextTaskGroup]_vars

----------------------------------------------------------------------------
(* The event meta-job.                                                     *)
(*                                                                         *)
(* An error is the sequence of its messages, <<>> is the nil error.  The   *)
(* collaborators (queue, service flags, event log, triggers, bulk          *)
(* inserter) answer what env says; calls is the list of the calls the job  *)
(* made on them, in the order it made them.                                *)

\* most unprocessed events of one run
MaxEvents == 2

Notification(id, type) == [ID |-> id, Subscriber |-> [Type |-> type]]

\* the subscriber types notificationIsEnabled knows, and one it does not
SubscriberTypes ==
    {"github_pull_request", "jira-issue", "jira-comment",
     "evergreen-webhook", "email", "slack", "unknown"}

ServiceFlags(processing, github, jira, webhook, email, slack) ==
    [EventProcessingDisabled |-> processing,
     GithubStatusAPIDisabled |-> github,
     JIRANotificationsDisabled |-> jira,
     WebhookNotificationsDisabled |-> webhook,
     EmailNotificationsDisabled |-> email,
     SlackNotificationsDisabled |-> slack]

\* notificationIsEnabled letting a subscriber type it does not know through
notificationIsEnabledByDefault(flags, n) ==
    LET type == n.Subscriber.Type
    IN  CASE type = "github_pull_request" -> ~flags.GithubStatusAPIDisabled
          [] type \in {"jira-issue", "jira-comment"} ->
                ~flags.JIRANotificationsDisabled
          [] type = "evergreen-webhook" -> ~flags.WebhookNotificationsDisabled
          [] type = "email" -> ~flags.EmailNotificationsDisabled
          [] type = "slack" -> ~flags.SlackNotificationsDisabled
          [] OTHER -> TRUE

notificationIsEnabled(flags, n) ==
    LET type == n.Subscriber.Type
    IN  CASE type = "github_pull_request" -> ~flags.GithubStatusAPIDisabled
          [] type \in {"jira-issue", "jira-comment"} ->
                ~flags.JIRANotificationsDisabled
          [] type = "evergreen-webhook" -> ~flags.WebhookNotificationsDisabled
          [] type = "email" -> ~flags.EmailNotificationsDisabled
          [] type = "slack" -> ~flags.SlackNotificationsDisabled
          [] OTHER -> FALSE

\* a call on a collaborator, about the notification or the event of the id
Call(name, id) == [call |-> name, id |-> id]

\* what a call on a collaborator returns: the error named after the call
\* when env makes that call fail, nil otherwise
Answer(name) == IF env.failing = name THEN <<name>> ELSE <<>>

\* catcher.Add(err)
Add(c, err) == IF err = <<>> THEN c ELSE Append(c, err)

\* catcher.Resolve()
Resolve(c) == Concat(c)

\* j.AddError(err)
AddError(jb, err) ==
    IF err = <<>> THEN jb ELSE [jb EXCEPT !.errors = Append(@, err)]

\* j.MarkComplete()
MarkComplete(jb) == [jb EXCEPT !.complete = TRUE]

\* trigger.NotificationsFromEvent(e): a panic, or notifications and an error
NotificationsFromEvent(e) == env.triggers[e.ID]

\* e.ID.Hex(): the text of an event id
Hex(id) ==
    CASE id = 0 -> "0" [] id = 1 -> "1" [] id = 2 -> "2" [] id = 3 -> "3"
      [] id = 4 -> "4" [] id = 5 -> "5" [] id = 6 -> "6" [] id = 7 -> "7"
      [] id = 8 -> "8" [] id = 9 -> "9"

\* e is a *event.EventLogEntry: <<>> is nil
tryProcessOneEvent(e) ==
    IF e = <<>>
    THEN [n |-> <<>>, err |-> <<"nil event">>]
    ELSE LET r == NotificationsFromEvent(e[1])
         IN  IF r.panics
             THEN [n |-> <<>>,
                   err |-> <<"panicked while processing event",
                             Hex(e[1].ID)>>]
             ELSE [n |-> r.n, err |-> r.err]

\* the calls of j.dispatch(ns) and the error it returns
dispatch(flags, ns) ==
    LET made == [k \in DOMAIN ns |->
                    IF notificationIsEnabled(flags, ns[k])
                    THEN Call("Put", ns[k].ID)
                    ELSE Call("MarkError", ns[k].ID)]
    IN  [calls |-> made,
         err |-> Concat([k \in DOMAIN ns |-> Answer(made[k].call)])]

\* Run up to the call of dispatchLoop: the queue, the service flags and the
\* unprocessed events
Run ==
    /\ step = "Run"
    /\ LET q == IF job.q = "nil" THEN env.remoteQueue ELSE job.q
           withQ == [job EXCEPT !.q = q]
           withFlags == [withQ EXCEPT !.flags = env.flags]
       IN  IF q # "started"
           THEN /\ job' = MarkComplete(AddError(withQ,
                      <<"evergreen environment not setup correctly">>))
                /\ step' = "done"
                /\ calls' = calls
           ELSE IF env.flagsErr
           THEN /\ job' = MarkComplete(AddError(withQ,
                      <<"error retrieving admin settings", "GetServiceFlags">>))
                /\ step' = "done"
                /\ calls' = Append(calls, Call("GetServiceFlags", 0))
           ELSE IF env.flags[1].EventProcessingDisabled
           THEN /\ job' = MarkComplete(withFlags)
                /\ step' = "done"
                /\ calls' = Append(calls, Call("GetServiceFlags", 0))
           ELSE IF env.findErr
           THEN /\ job' = MarkComplete(AddError(withFlags,
                      <<"FindUnprocessedEvents">>))
                /\ step' = "done"
                /\ calls' = calls \o <<Call("GetServiceFlags", 0),
                                       Call("FindUnprocessedEvents", 0)>>
           ELSE IF Len(env.events) = 0
           THEN /\ job' = MarkComplete(withFlags)
                /\ step' = "done"
                /\ calls' = calls \o <<Call("GetServiceFlags", 0),
                                       Call("FindUnprocessedEvents", 0)>>
           ELSE /\ job' = [withFlags EXCEPT !.events = env.events]
                /\ step' = "dispatchLoop"
                /\ calls' = calls \o <<Call("GetServiceFlags", 0),
                                       Call("FindUnprocessedEvents", 0)>>
    /\ UNCHANGED <<proj, callVars, mergeVars, aliasVars, groupVars, env,
                   cursor, notifications, catcher>>

\* dispatchLoop up to its first loop: the bulk inserter, the catcher and the
\* notifications
EnterDispatchLoop ==
    /\ step = "dispatchLoop"
    /\ calls' = Append(calls, Call("BulkInserter", 0))
    /\ IF Answer("BulkInserter") # <<>>
       THEN /\ job' = MarkComplete(AddError(job, Answer("BulkInserter")))
            /\ step' = "done"
            /\ UNCHANGED <<cursor, notifications, catcher>>
       ELSE /\ step' = "process"
            /\ cursor' = 1
            /\ notifications' = [k \in DOMAIN job.events |-> <<>>]
            /\ catcher' = <<>>
            /\ job' = job
    /\ UNCHANGED <<proj, callVars, mergeVars, aliasVars, groupVars, env>>

\* one turn of dispatchLoop's first loop: the notifications of one event
ProcessEvent ==
    /\ step = "process"
    /\ cursor <= Len(job.events)
    /\ LET r == tryProcessOneEvent(<<job.events[cursor]>>)
       IN  /\ notifications' = [notifications EXCEPT ![cursor] = r.n]
           /\ catcher' = Add(catcher, r.err) \o
                         Concat([k \in DOMAIN r.n |->
                                    Add(<<>>, Answer("Append"))])
           /\ calls' = calls \o
                       [k \in DOMAIN r.n |-> Call("Append", r.n[k].ID)]
    /\ cursor' = cursor + 1
    /\ UNCHANGED <<proj, callVars, mergeVars, aliasVars, groupVars, env, step,
                   job>>

\* bulk.Close() after the first loop
CloseBulk ==
    /\ step = "process"
    /\ cursor > Len(job.events)
    /\ catcher' = Add(catcher, Answer("Close"))
    /\ calls' = Append(calls, Call("Close", 0))
    /\ step' = "dispatch"
    /\ cursor' = 1
    /\ UNCHANGED <<proj, callVars, mergeVars, aliasVars, groupVars, env, job,
                   notifications>>

\* one turn of the second loop marking the event before the dispatch
DispatchEventMarkingFirst ==
    /\ step = "dispatch"
    /\ cursor <= Len(notifications)
    /\ LET d == dispatch(job.flags[1], notifications[cursor])
       IN  /\ catcher' = Add(Add(catcher, Answer("MarkProcessed")), d.err)
           /\ calls' = Append(calls,
                              Call("MarkProcessed", job.events[cursor].ID))
                       \o d.calls
    /\ cursor' = cursor + 1
    /\ UNCHANGED <<proj, callVars, mergeVars, aliasVars, groupVars, env, step,
                   job, notifications>>

\* one turn of dispatchLoop's second loop: the dispatch of one event's
\* notifications, then the mark on the event
DispatchEvent ==
    /\ step = "dispatch"
    /\ cursor <= Len(notifications)
    /\ LET d == dispatch(job.flags[1], notifications[cursor])
       IN  /\ catcher' = Add(Add(catcher, d.err), Answer("MarkProcessed"))
           /\ calls' = Append(calls \o d.calls,
                              Call("MarkProcessed", job.events[cursor].ID))
    /\ cursor' = cursor + 1
    /\ UNCHANGED <<proj, callVars, mergeVars, aliasVars, groupVars, env, step,
                   job, notifications>>

\* the return of dispatchLoop without the deferred MarkComplete of Run
ReturnIncomplete ==
    /\ step = "dispatch"
    /\ cursor > Len(notifications)
    /\ job' = AddError(job, Resolve(catcher))
    /\ step' = "done"
    /\ UNCHANGED <<proj, callVars, mergeVars, aliasVars, groupVars, env,
                   cursor, notifications, catcher, calls>>

\* the return of dispatchLoop, Run's AddError of its result and the deferred
\* MarkComplete
Return ==
    /\ step = "dispatch"
    /\ cursor > Len(notifications)
    /\ job' = MarkComplete(AddError(job, Resolve(catcher)))
    /\ step' = "done"
    /\ UNCHANGED <<proj, callVars, mergeVars, aliasVars, groupVars, env,
                   cursor, notifications, catcher, calls>>

\* the lists of subscriber types of the notifications of one event
TypeLists ==
    {<<>>, <<"email">>, <<"slack", "unknown">>,
     <<"github_pull_request", "jira-issue">>,
     <<"jira-comment", "evergreen-webhook">>}

\* what the triggers make of one event: notifications of the types, with or
\* without an error, or a panic
TriggerShapes ==
    {[panics |-> FALSE, types |-> ts, err |-> <<>>] : ts \in TypeLists} \cup
    {[panics |-> FALSE, types |-> ts, err |-> <<"NotificationsFromEvent">>] :
        ts \in {<<>>, <<"email">>}} \cup
    {[panics |-> TRUE, types |-> <<>>, err |-> <<>>]}

\* the outcome of the shape for event k; the m-th notification of event k
\* has the id 10 * k + m
Stamp(k, shape) ==
    [panics |-> shape.panics,
     n |-> [m \in DOMAIN shape.types |->
               Notification(10 * k + m, shape.types[m])],
     err |-> shape.err]

AllEnabled == ServiceFlags(FALSE, FALSE, FALSE, FALSE, FALSE, FALSE)

\* no sender disabled, one sender disabled, every sender disabled
FlagSets ==
    {AllEnabled,
     ServiceFlags(FALSE, TRUE, FALSE, FALSE, FALSE, FALSE),
     ServiceFlags(FALSE, FALSE, TRUE, FALSE, FALSE, FALSE),
     ServiceFlags(FALSE, FALSE, FALSE, TRUE, FALSE, FALSE),
     ServiceFlags(FALSE, FALSE, FALSE, FALSE, TRUE, FALSE),
     ServiceFlags(FALSE, FALSE, FALSE, FALSE, FALSE, TRUE),
     ServiceFlags(FALSE, TRUE, TRUE, TRUE, TRUE, TRUE)}

\* the calls env can make fail
FailingCalls ==
    {"BulkInserter", "Append", "Close", "Put", "MarkError", "MarkProcessed"}

Environment(jobQueue, remoteQueue, flagsErr, flags, findErr, shapes,
            failing) ==
    [jobQueue |-> jobQueue, remoteQueue |-> remoteQueue,
     flagsErr |-> flagsErr, flags |-> <<flags>>, findErr |-> findErr,
     events |-> [k \in DOMAIN shapes |-> [ID |-> k]],
     triggers |-> [k \in DOMAIN shapes |-> Stamp(k, shapes[k])],
     failing |-> failing]

QueueStates == {"nil", "stopped", "started"}

\* environments that differ in what Run meets before the dispatch loop
SetupEnvironments ==
    {Environment(jq, rq, fe,
                 ServiceFlags(pd, FALSE, FALSE, FALSE, FALSE, FALSE),
                 ue, shapes, "none") :
        jq \in QueueStates, rq \in QueueStates, fe \in BOOLEAN,
        pd \in BOOLEAN, ue \in BOOLEAN,
        shapes \in {<<>>, <<[panics |-> FALSE, types |-> <<"email">>,
                             err |-> <<>>]>>}}

\* environments that differ in the events, in the flags and in the call that
\* fails
LoopEnvironments ==
    LET shapeLists == UNION {[1..n -> TriggerShapes] : n \in 0..MaxEvents}
    IN  {Environment("started", "nil", FALSE, fl, FALSE, shapes, "none") :
            fl \in FlagSets, shapes \in shapeLists} \cup
        {Environment("nil", "started", FALSE, AllEnabled, FALSE, shapes, f) :
            f \in FailingCalls, shapes \in shapeLists}

InitJob ==
    /\ proj = NoProject
    /\ NoCall
    /\ NoMerge
    /\ NoAlias
    /\ NoGroup
    /\ env \in SetupEnvironments \cup LoopEnvironments
    /\ step = "Run"
    /\ job = [q |-> env.jobQueue, flags |-> <<>>, events |-> <<>>,
              errors |-> <<>>, complete |-> FALSE]
    /\ cursor = 0
    /\ notifications = <<>>
    /\ catcher = <<>>
    /\ calls = <<>>

NextJob ==
    \/ Run
    \/ EnterDispatchLoop
    \/ ProcessEvent
    \/ CloseBulk
    \/ DispatchEvent
    \/ Return

SpecMetaJob == InitJob /\ [][NextJob]_vars

\* a run that is not held up for ever
SpecMetaJobFair == InitJob /\ [][NextJob]_vars /\ WF_vars(NextJob)

----------------------------------------------------------------------------
(* Claims C11 - C20.                                                       *)

\* C11: after Populate, each of DependsOn, Requires, Priority, Patchable,
\* ExecTimeoutSecs and Stepback of the unit is the unit's value from before
\* the call when that value was not the zero value and the project task's
\* value otherwise, and Name, IsGroup, GroupName and Distros are as before.
C11_PopulateFillsZeroFields ==
    populates >= 1 =>
       /\ unit.DependsOn = IF argUnit.DependsOn # <<>> THEN argUnit.DependsOn
                           ELSE argProjectTask.DependsOn
       /\ unit.Requires = IF argUnit.Requires # <<>> THEN argUnit.Requires
                          ELSE argProjectTask.Requires
       /\ unit.Priority = IF argUnit.Priority # 0 THEN argUnit.Priority
                          ELSE argProjectTask.Priority
       /\ unit.Patchable = IF argUnit.Patchable # "nil" THEN argUnit.Patchable
                           ELSE argProjectTask.Patchable
       /\ unit.ExecTimeoutSecs =
             IF argUnit.ExecTimeoutSecs # 0 THEN argUnit.ExecTimeoutSecs
             ELSE argProjectTask.ExecTimeoutSecs
       /\ unit.Stepback = IF argUnit.Stepback # "nil" THEN argUnit.Stepback
                          ELSE argProjectTask.Stepback
       /\ unit.Name = argUnit.Name
       /\ unit.IsGroup = argUnit.IsGroup
       /\ unit.GroupName = argUnit.GroupName
       /\ unit.Distros = argUnit.Distros

\* C11 witness: one Populate on a unit that set its priority and left its
\* Patchable nil, with a project task of another priority and Patchable
\* false: the priority stayed and Patchable was filled.
C11_Witness ==
    /\ populates = 1
    /\ argUnit.Priority = 1
    /\ argProjectTask.Priority = 2
    /\ argUnit.Patchable = "nil"
    /\ argProjectTask.Patchable = "false"
    /\ unit.Priority = 1
    /\ unit.Patchable = "false"

\* C12: a call of Populate on a unit that was already populated from the
\* same project task leaves the unit as it was.
C12_PopulateIdempotent ==
    [][(populates >= 1 /\ populates' = populates + 1) => unit' = unit]_vars

\* C12 witness: Populate was applied twice to a unit that the merge changed.
C12_Witness ==
    /\ populates = 2
    /\ unit # argUnit
    /\ argUnit.DependsOn = <<>>
    /\ unit.DependsOn # <<>>

\* C13 (as claimed): no call of the core changes the project: its variant
\* list and the order of it, the units of its variants, its tasks and its
\* task groups are after every step what they were before it.
C13_ProjectUnchanged == [][proj' = proj]_vars

\* the project task is not marked Patchable = false
NotMarkedUnpatchable(task) == task.Patchable # "false"

\* the tags of the rule and of the task have a tag in common
SharesTag(rule, task) == Range(rule.Tags) \cap Range(task.Tags) # {}

\* the pattern matches the name as the regular-expression library matches
Matches(pattern, name) ==
    MatchString(Compile(Chars(pattern)), Chars(name))

\* the pattern matches the whole of the name: a match of it begins before
\* the first character of the name and ends after the last
MatchesWhole(pattern, name) ==
    LET whole(parsed, text) ==
           parsed.ok /\ Len(text) + 1 \in Ends(parsed.node, text, {1})
    IN  whole(Compile(Chars(pattern)), Codes(Chars(name)))

\* the alias was found and each pattern of each rule compiles
AliasResolves ==
    /\ ~argAlias.err
    /\ \A i \in DOMAIN argAlias.vars :
          /\ Compiles(Chars(argAlias.vars[i].Variant))
          /\ Compiles(Chars(argAlias.vars[i].Task))

\* C14: when the alias resolves, the exec pairs are exactly the pairs
\* (variant, task) for which some rule's variant pattern matches the
\* variant's name and the task is a project task reachable on the variant,
\* not marked Patchable = false, and either matched by the rule's task
\* pattern, that pattern not being empty, or sharing a tag with the rule.
C14_AliasExecPairs ==
    (op = "BuildProjectTVPairsWithAlias" /\ AliasResolves) =>
       Range(aliasOut.pairs) =
          {pr \in {TVPair(proj.BuildVariants[i].Name, proj.Tasks[k].Name) :
                     i \in DOMAIN proj.BuildVariants, k \in DOMAIN proj.Tasks} :
             \E r \in Range(argAlias.vars), t \in TasksNamed(proj, pr.TaskName) :
                /\ Matches(r.Variant, pr.Variant)
                /\ Reachable(proj, pr.TaskName, pr.Variant)
                /\ NotMarkedUnpatchable(t)
                /\ \/ r.Task # "" /\ Matches(r.Task, pr.TaskName)
                   \/ SharesTag(r, t)}

\* C14 witness: a rule of tags only picked the tagged task b_c on variant
\* a_b and no pair of the untagged task c.
C14_Witness ==
    /\ op = "BuildProjectTVPairsWithAlias"
    /\ argAlias.vars = <<ProjectAlias("a.*", "", <<"t">>)>>
    /\ TVPair("a_b", "b_c") \in Range(aliasOut.pairs)
    /\ \E t \in TasksNamed(proj, "c") : t.Tags = <<>>
    /\ OnVariant(proj, "c", "a")
    /\ \A i \in DOMAIN aliasOut.pairs : aliasOut.pairs[i].TaskName # "c"

\* C15: no exec pair of an alias resolution names a project task marked
\* Patchable = false.
C15_AliasSkipsUnpatchable ==
    op = "BuildProjectTVPairsWithAlias" =>
       \A i \in DOMAIN aliasOut.pairs :
          ~TaskNotPatchable(proj, aliasOut.pairs[i].TaskName)

\* C15 witness: the task pattern matches c and b_c, both on a matching
\* variant, c is marked Patchable = false, and only b_c came back.
C15_Witness ==
    /\ op = "BuildProjectTVPairsWithAlias"
    /\ argAlias.vars = <<ProjectAlias("a", "c", <<>>)>>
    /\ TaskNotPatchable(proj, "c")
    /\ Reachable(proj, "c", "a")
    /\ TVPair("a", "b_c") \in Range(aliasOut.pairs)
    /\ TVPair("a", "c") \notin Range(aliasOut.pairs)

\* C16 (as claimed): a pair comes back only through a rule whose variant
\* pattern matches the whole of the variant's name and, where the task is
\* selected by pattern, whose task pattern matches the whole of its name.
C16_PatternsAnchored ==
    (op = "BuildProjectTVPairsWithAlias" /\ AliasResolves) =>
       /\ \A i \in DOMAIN aliasOut.pairs :
             LET pr == aliasOut.pairs[i]
             IN  \E r \in Range(argAlias.vars), t \in TasksNamed(proj, pr.TaskName) :
                    /\ MatchesWhole(r.Variant, pr.Variant)
                    /\ \/ r.Task # "" /\ MatchesWhole(r.Task, pr.TaskName)
                       \/ SharesTag(r, t)
       /\ \A i \in DOMAIN aliasOut.displayTaskPairs :
             LET pr == aliasOut.displayTaskPairs[i]
             IN  \E r \in Range(argAlias.vars) :
                    /\ MatchesWhole(r.Variant, pr.Variant)
                    /\ r.Task # "" /\ MatchesWhole(r.Task, pr.TaskName)

\* C17: when the alias was found and a pattern of one of its rules does not
\* compile, the resolution returns an error, no exec pair and no display
\* pair.
C17_BadPatternFailsAll ==
    (op = "BuildProjectTVPairsWithAlias" /\ ~argAlias.err /\ ~AliasResolves) =>
       /\ aliasOut.err # <<>>
       /\ aliasOut.pairs = <<>>
       /\ aliasOut.displayTaskPairs = <<>>

\* C17 witness: the first rule alone gives a pair on the project, the
\* second has a pattern that does not compile, and an error with no pair
\* came back.
C17_Witness ==
    /\ op = "BuildProjectTVPairsWithAlias"
    /\ argAlias.vars = <<ProjectAlias("a", "c", <<>>),
                         ProjectAlias("a", "(", <<"t">>)>>
    /\ Reachable(proj, "b_c", "a_b")
    /\ aliasOut.err = <<"Error compiling regex", "(">>
    /\ aliasOut.pairs = <<>>

\* C18: when the alias resolves, the display pairs are exactly the pairs
\* (variant, D) of a display task D of a variant for which some rule with a
\* task pattern that is not empty matches the variant's name by its variant
\* pattern and D's name by its task pattern.
C18_AliasDisplayPairs ==
    (op = "BuildProjectTVPairsWithAlias" /\ AliasResolves) =>
       Range(aliasOut.displayTaskPairs) =
          UNION {{TVPair(proj.BuildVariants[i].Name,
                         proj.BuildVariants[i].DisplayTasks[k].Name) :
                    k \in {m \in DOMAIN proj.BuildVariants[i].DisplayTasks :
                       \E r \in Range(argAlias.vars) :
                          /\ r.Task # ""
                          /\ Matches(r.Variant, proj.BuildVariants[i].Name)
                          /\ Matches(r.Task,
                               proj.BuildVariants[i].DisplayTasks[m].Name)}} :
                 i \in DOMAIN proj.BuildVariants}

\* C18 witness: a rule of tags only and a rule with task pattern d on a
\* project whose variant a has display tasks d and e: d came back, e did not.
C18_Witness ==
    /\ op = "BuildProjectTVPairsWithAlias"
    /\ argAlias.vars = <<ProjectAlias("a.*", "", <<"t">>),
                         ProjectAlias("", "d", <<>>)>>
    /\ TVPair("a", "d") \in Range(aliasOut.displayTaskPairs)
    /\ TVPair("a", "e") \notin Range(aliasOut.displayTaskPairs)
    /\ \E bv \in VariantsNamed(proj, "a") : Len(bv.DisplayTasks) = 2

\* the variants of the project that the request selects
SelectedVariants ==
    {proj.BuildVariants[i] : i \in {j \in DOMAIN proj.BuildVariants :
        proj.BuildVariants[j].Name \in Range(argVariants)}}

\* name is requested, or is the name of a display task of a selected
\* variant that lists a requested task
DirectlySelected(name) ==
    \/ name \in Range(argTasks)
    \/ \E bv \in SelectedVariants :
          \E dt \in Range(bv.DisplayTasks) :
             /\ dt.Name = name
             /\ Range(dt.ExecutionTasks) \cap Range(argTasks) # {}

\* C19 (as claimed): display-task membership is not followed through a
\* chain.  If D2 is not requested and lists a requested task, D1 lists D2
\* and is neither requested nor a display task listing a requested task,
\* then no display pair names D1.  If D1 is requested and lists D2, which
\* is neither requested nor lists a requested task, then D2 is not selected
\* on that variant and its members come back only as members of another
\* selected display task.
C19_NoChainedMembership ==
    op = "extractDisplayTasks" =>
       /\ \A bv1, bv2 \in SelectedVariants :
             \A d1 \in Range(bv1.DisplayTasks), d2 \in Range(bv2.DisplayTasks) :
                (/\ d2.Name \notin Range(argTasks)
                 /\ Range(d2.ExecutionTasks) \cap Range(argTasks) # {}
                 /\ d2.Name \in Range(d1.ExecutionTasks)
                 /\ ~DirectlySelected(d1.Name))
                => \A i \in DOMAIN tvp.DisplayTasks :
                      tvp.DisplayTasks[i].TaskName # d1.Name
       /\ \A bv \in SelectedVariants :
             \A d1, d2 \in Range(bv.DisplayTasks) :
                (/\ d1.Name \in Range(argTasks)
                 /\ d2.Name \in Range(d1.ExecutionTasks)
                 /\ ~DirectlySelected(d2.Name))
                => /\ TVPair(bv.Name, d2.Name) \notin Range(tvp.DisplayTasks)
                   /\ \A m \in Range(d2.ExecutionTasks) :
                         TVPair(bv.Name, m) \in Range(tvp.ExecTasks) =>
                            \E dt \in Range(bv.DisplayTasks) :
                               /\ dt # d2
                               /\ m \in Range(dt.ExecutionTasks)
                               /\ TVPair(bv.Name, dt.Name)
                                     \in Range(tvp.DisplayTasks)

\* C20 (as claimed): in the tables of NewTaskIdTable no id of a display
\* task of a variant is the id of an execution task of that variant.
C20_DisplayIdsApart ==
    op = "NewTaskIdTable" =>
       \A ke \in DOMAIN idConfig.ExecutionTasks,
          kd \in DOMAIN idConfig.DisplayTasks :
          ke.Variant = kd.Variant =>
             idConfig.ExecutionTasks[ke] # idConfig.DisplayTasks[kd]

----------------------------------------------------------------------------
(* Claims C21 - C30.                                                       *)

\* the table the last table construction gives for version w in place of
\* the version it was called with
TablesFor(w) ==
    IF op = "NewTaskIdTable" THEN NewTaskIdTableOf(proj, w).config
    ELSE NewPatchTaskIdTableOf(proj, w, argPairs).config

\* C21: the ids a table construction gives for a version of a patch
\* requester differ, key by key, from the ids it gives for the same project
\* and a version of the same revision and creation time of a mainline
\* requester, and every execution id of the patch version has the revision
\* component patch_<revision>_<version id>.
C21_PatchIdsDifferFromMainline ==
    (/\ op \in {"NewTaskIdTable", "NewPatchTaskIdTable"}
     /\ ~fault
     /\ IsPatchRequester(argVersion.Requester)) =>
       LET mainline == TablesFor([argVersion EXCEPT
                                    !.Requester = "gitter_request"])
           patchRev == <<"p", "a", "t", "c", "h", "_">> \o
                       Chars(argVersion.Revision) \o <<"_">> \o
                       Chars(argVersion.Id)
       IN  /\ DOMAIN mainline.ExecutionTasks = DOMAIN idConfig.ExecutionTasks
           /\ DOMAIN mainline.DisplayTasks = DOMAIN idConfig.DisplayTasks
           /\ \A k \in DOMAIN idConfig.ExecutionTasks :
                 /\ idConfig.ExecutionTasks[k] # mainline.ExecutionTasks[k]
                 /\ \E i \in 1..Len(idConfig.ExecutionTasks[k]) :
                       SubSeq(idConfig.ExecutionTasks[k], i,
                              i + Len(patchRev) - 1) = patchRev
           /\ \A k \in DOMAIN idConfig.DisplayTasks :
                 idConfig.DisplayTasks[k] # mainline.DisplayTasks[k]

\* C21 witness: a full table for a patch version with an execution id and
\* a display id.
C21_Witness ==
    /\ op = "NewTaskIdTable"
    /\ argVersion.Requester = "patch_request"
    /\ TVPair("a", "c") \in DOMAIN idConfig.ExecutionTasks
    /\ TVPair("a", "d") \in DOMAIN idConfig.DisplayTasks

\* the names of the task groups of the project
GroupNames(p) == {p.TaskGroups[i].Name : i \in DOMAIN p.TaskGroups}

\* C23: the execution-task table of NewTaskIdTable has a key (v, t) exactly
\* for each variant v, disabled or not, and each t that is a unit of v not
\* naming a task group or a member of a task group a unit of v names; no
\* key names a task group; the display-task table has a key (v, D) exactly
\* for each display task D of each variant v.
C23_FullTableKeys ==
    op = "NewTaskIdTable" =>
       /\ DOMAIN idConfig.ExecutionTasks =
             UNION {{TVPair(proj.BuildVariants[i].Name, t) :
                       t \in UNION {IF u.Name \in GroupNames(proj)
                                    THEN GroupMembers(proj, u.Name)
                                    ELSE {u.Name} :
                                    u \in Range(proj.BuildVariants[i].Tasks)}} :
                    i \in DOMAIN proj.BuildVariants}
       /\ \A k \in DOMAIN idConfig.ExecutionTasks :
             k.TaskName \notin GroupNames(proj)
       /\ DOMAIN idConfig.DisplayTasks =
             UNION {{TVPair(proj.BuildVariants[i].Name, dt.Name) :
                       dt \in Range(proj.BuildVariants[i].DisplayTasks)} :
                    i \in DOMAIN proj.BuildVariants}

\* C23 witness: the full table of a project whose disabled variant a has
\* the task-group unit g: the members of g are keys on a.
C23_Witness ==
    /\ op = "NewTaskIdTable"
    /\ \E bv \in VariantsNamed(proj, "a") :
          /\ bv.Disabled
          /\ \E u \in Range(bv.Tasks) : u.Name = "g"
          /\ bv.DisplayTasks # <<>>
    /\ TVPair("a", "c") \in DOMAIN idConfig.ExecutionTasks
    /\ TVPair("a", "b_c") \in DOMAIN idConfig.ExecutionTasks

\* C26 (as claimed): each display pair (v, D) of extractDisplayTasks has D
\* in the task list that was passed in, or a task of that list among the
\* execution tasks of a display task named D of variant v itself.
C26_DisplaySelectionPerVariant ==
    op = "extractDisplayTasks" =>
       \A i \in DOMAIN tvp.DisplayTasks :
          LET pr == tvp.DisplayTasks[i]
          IN  \/ pr.TaskName \in Range(argTasks)
              \/ \E bv \in VariantsNamed(proj, pr.Variant) :
                    \E dt \in Range(bv.DisplayTasks) :
                       /\ dt.Name = pr.TaskName
                       /\ Range(dt.ExecutionTasks) \cap Range(argTasks) # {}

\* C27 (as claimed): every key of the display-task table of
\* NewPatchTaskIdTable is one of the requested display pairs.
C27_PatchDisplayTableKeys ==
    (op = "NewPatchTaskIdTable" /\ ~fault) =>
       DOMAIN idConfig.DisplayTasks \subseteq Range(argPairs.DisplayTasks)

\* C22 (as claimed): the ids a table construction gives for a patch version
\* differ, key by key, from the ids it gives for every patch version of the
\* same revision and another version id.
C22_PatchVersionsApart ==
    (/\ op \in {"NewTaskIdTable", "NewPatchTaskIdTable"}
     /\ ~fault
     /\ IsPatchRequester(argVersion.Requester)) =>
       \A w \in RichVersions :
          (/\ IsPatchRequester(w.Requester)
           /\ w.Revision = argVersion.Revision
           /\ w.Id # argVersion.Id)
          => LET other == TablesFor(w)
             IN  /\ \A k \in DOMAIN idConfig.ExecutionTasks :
                       idConfig.ExecutionTasks[k] # other.ExecutionTasks[k]
                 /\ \A k \in DOMAIN idConfig.DisplayTasks :
                       idConfig.DisplayTasks[k] # other.DisplayTasks[k]

\* C24: GetTaskGroup returns no group and an error, and does not fault, when
\* the task config is nil, its task is nil, the task's version string is
\* empty or its version record is nil; it returns no group and an error when
\* the loaded project has no group of the name asked for; it returns, for
\* the empty name, a group whose per-task command sets are the project's pre,
\* post and timeout.
C24_GetTaskGroupContract ==
    tgOut.done =>
       LET incomplete ==
              \/ argTc = <<>>
              \/ argTc[1].Task = <<>>
              \/ argTc[1].Task[1].Version = ""
              \/ argTc[1].Version = <<>>
           loaded == argTc[1].Version[1].Config
       IN  /\ incomplete =>
                (tgOut.tg = <<>> /\ tgOut.err # <<>> /\ ~tgOut.fault)
           /\ (~incomplete /\ loaded.parses) =>
                /\ ~tgOut.fault
                /\ (/\ argTaskGroup # ""
                    /\ \A i \in DOMAIN loaded.project.TaskGroups :
                          loaded.project.TaskGroups[i].Name # argTaskGroup)
                   => (tgOut.tg = <<>> /\ tgOut.err # <<>>)
                /\ argTaskGroup = "" =>
                      /\ tgOut.err = <<>>
                      /\ Len(tgOut.tg) = 1
                      /\ tgOut.tg[1].SetupTask = loaded.project.Pre
                      /\ tgOut.tg[1].TeardownTask = loaded.project.Post
                      /\ tgOut.tg[1].Timeout = loaded.project.Timeout

\* GetTaskGroup was called with a task that has a version string and no
\* version record
C24_Witness ==
    /\ tgOut.done
    /\ argTc # <<>>
    /\ argTc[1].Task # <<>>
    /\ argTc[1].Task[1].Version = "y"
    /\ argTc[1].Version = <<>>
    /\ tgOut.err = <<"version is nil">>

\* GetTaskGroup was called with the empty group name on a project that has
\* pre, post and timeout command sets
C24_FallbackReached ==
    /\ tgOut.done
    /\ argTaskGroup = ""
    /\ tgOut.tg # <<>>
    /\ tgOut.tg[1].SetupTask = <<"pre">>
    /\ tgOut.tg[1].TeardownTask = <<"post">>
    /\ tgOut.tg[1].Timeout = <<"timeout">>

\* the places of calls where the job made the call about the id
CallsOf(name, id) == {a \in DOMAIN calls : calls[a] = Call(name, id)}

\* the places of calls where the job made a call of the name
CallsNamed(name) == {a \in DOMAIN calls : calls[a].call = name}

\* processing the k-th event faulted or gave an error
FailedEvent(k) == env.triggers[k].panics \/ env.triggers[k].err # <<>>

\* the dispatch loop has run to its end
LoopDone ==
    /\ step = "done"
    /\ Len(job.events) > 0
    /\ env.failing # "BulkInserter"

\* C25 (as claimed): when the dispatch loop has run, an event whose
\* processing faulted or gave an error has no notifications and an error in
\* the loop's result, every other event has the notifications the triggers
\* gave and each of them was dispatched, and every event was marked
\* processed.
C25_FaultsKeptToTheirEvent ==
    LoopDone =>
       /\ \A k \in DOMAIN job.events :
             /\ FailedEvent(k) => notifications[k] = <<>>
             /\ ~FailedEvent(k) =>
                   /\ notifications[k] = env.triggers[k].n
                   /\ \A m \in DOMAIN notifications[k] :
                         CallsOf("Put", notifications[k][m].ID) \cup
                         CallsOf("MarkError", notifications[k][m].ID) # {}
             /\ CallsOf("MarkProcessed", job.events[k].ID) # {}
       /\ Len(catcher) >=
             Cardinality({k \in DOMAIN job.events : FailedEvent(k)})
       /\ (\E k \in DOMAIN job.events : FailedEvent(k)) => job.errors # <<>>

\* the service flag of the sender of the subscriber type is set, or the type
\* has no sender
SenderDisabled(flags, type) ==
    \/ type = "github_pull_request" /\ flags.GithubStatusAPIDisabled
    \/ type = "jira-issue" /\ flags.JIRANotificationsDisabled
    \/ type = "jira-comment" /\ flags.JIRANotificationsDisabled
    \/ type = "evergreen-webhook" /\ flags.WebhookNotificationsDisabled
    \/ type = "email" /\ flags.EmailNotificationsDisabled
    \/ type = "slack" /\ flags.SlackNotificationsDisabled
    \/ type \notin {"github_pull_request", "jira-issue", "jira-comment",
                    "evergreen-webhook", "email", "slack"}

\* the k-th event's notifications have been through dispatch
Dispatched(k) ==
    \/ step = "done"
    \/ step = "dispatch" /\ k < cursor

\* C28: for every notification that has been through dispatch, either its
\* sender is not disabled and the job made one Put for it and no MarkError,
\* or its sender is disabled (by flag, or the type is unknown) and the job
\* made one MarkError for it and no Put.
C28_PutOrSenderDisabled ==
    \A k \in DOMAIN notifications :
       Dispatched(k) =>
          \A m \in DOMAIN notifications[k] :
             LET n == notifications[k][m]
                 puts == CallsOf("Put", n.ID)
                 marks == CallsOf("MarkError", n.ID)
             IN  IF SenderDisabled(env.flags[1], n.Subscriber.Type)
                 THEN Cardinality(marks) = 1 /\ puts = {}
                 ELSE Cardinality(puts) = 1 /\ marks = {}

\* a run with no flag set ended after a Put for a slack notification and a
\* MarkError for a notification of an unknown type
C28_Witness ==
    /\ step = "done"
    /\ env.flags[1] = AllEnabled
    /\ \E k \in DOMAIN notifications :
          /\ Len(notifications[k]) = 2
          /\ notifications[k][1].Subscriber.Type = "slack"
          /\ notifications[k][2].Subscriber.Type = "unknown"
          /\ CallsOf("Put", notifications[k][1].ID) # {}
          /\ CallsOf("MarkError", notifications[k][2].ID) # {}

\* the event a call of dispatch or a mark is about
EventOf(c) == IF c.call = "MarkProcessed" THEN c.id ELSE c.id \div 10

\* C29: a Put comes after the Append of every notification of every event
\* and after the Close; the MarkProcessed of an event comes after the Put or
\* MarkError of each of its notifications; the Puts, MarkErrors and
\* MarkProcesseds come event by event in the order of the batch.
C29_DispatchOrder ==
    /\ \A a \in CallsNamed("Put") :
          /\ \E b \in CallsNamed("Close") : b < a
          /\ \A k \in DOMAIN notifications :
                \A m \in DOMAIN notifications[k] :
                   \E b \in CallsOf("Append", notifications[k][m].ID) : b < a
    /\ \A k \in DOMAIN job.events :
          \A a \in CallsOf("MarkProcessed", job.events[k].ID) :
             \A m \in DOMAIN notifications[k] :
                \E b \in CallsOf("Put", notifications[k][m].ID) \cup
                         CallsOf("MarkError", notifications[k][m].ID) : b < a
    /\ \A a, b \in CallsNamed("Put") \cup CallsNamed("MarkError") \cup
                   CallsNamed("MarkProcessed") :
          a < b => EventOf(calls[a]) <= EventOf(calls[b])
    /\ \A k \in DOMAIN job.events :
          Cardinality(CallsOf("MarkProcessed", job.events[k].ID)) <= 1

\* a run ended after it put a job on the queue for each of two events
C29_Witness ==
    /\ step = "done"
    /\ Len(job.events) = 2
    /\ \E a \in CallsNamed("Put") : EventOf(calls[a]) = 1
    /\ \E a \in CallsNamed("Put") : EventOf(calls[a]) = 2
    /\ CallsNamed("MarkProcessed") # {}

\* the queue Run works with
QueueOfRun == IF env.jobQueue = "nil" THEN env.remoteQueue ELSE env.jobQueue

\* the job dispatched no notification and marked no event
NothingDispatched ==
    /\ CallsNamed("Put") = {}
    /\ CallsNamed("MarkError") = {}
    /\ CallsNamed("MarkProcessed") = {}

\* a run that has ended left the job complete; it recorded an error and
\* fetched, dispatched and marked nothing when the queue is missing or not
\* started or the flags cannot be read; it dispatched and marked nothing and
\* recorded no error when processing is disabled or no event is unprocessed
RunOutcome ==
    step = "done" =>
       /\ job.complete
       /\ (QueueOfRun # "started" \/ env.flagsErr) =>
             /\ job.errors # <<>>
             /\ CallsNamed("FindUnprocessedEvents") = {}
             /\ NothingDispatched
       /\ (/\ QueueOfRun = "started"
           /\ ~env.flagsErr
           /\ \/ env.flags[1].EventProcessingDisabled
              \/ ~env.findErr /\ env.events = <<>>) =>
             /\ NothingDispatched
             /\ job.errors = <<>>

\* C30: every run ends, and ends with the job marked complete and with the
\* outcome of RunOutcome.
C30_RunEndsComplete == []RunOutcome /\ <>(step = "done" /\ job.complete)

\* a run ended, complete and with an error, on a queue that is not started
C30_Witness ==
    /\ step = "done"
    /\ job.complete
    /\ env.jobQueue = "stopped"
    /\ job.errors # <<>>
    /\ calls = <<>>

====
